---------------------------- MODULE Spec2Model ----------------------------
(***************************************************************************)
(* wdmt: scanner, security validator, deletion engine and interactive UI.  *)
(*                                                                         *)
(* A path string is a sequence of atoms.  An atom is the separator "/",    *)
(* the dot ".", the bytes "<00>" and "<ff>", or a run of ordinary          *)
(* characters ("node_modules", "w", "2") that no path operation of the     *)
(* program splits.  The string "/w2/..c" is <<"/","w","2","/",".",".","c">>.*)
(* A segment is a non-empty sequence of atoms without "/".  A physical     *)
(* location is a sequence of segments (the root is <<>>).                  *)
(***************************************************************************)
EXTENDS Naturals, Integers, Sequences, FiniteSets, TLC

VARIABLES
    fs,             \* the filesystem: physical location -> node
    removed,        \* history: physical locations the program itself removed
    extActs,        \* number of steps the external actor has taken
    cleaner,        \* the Cleaner built by New: workingDir, workingDirDev
    vIn,            \* validator run: the candidates handed to ValidateTargets
    vOut,           \* validator run: what ValidateTargets returned
    vPath,          \* validator run: last path given to validatePathSecurity
    vRes,           \* validator run: its verdict
    newDir,         \* the working directory handed to cleaner.New
    newErr,         \* the error cleaner.New returned
    calls,          \* history: the filesystem-mutating calls the program issued
    locked,         \* locations whose removal the system refuses (EPERM)
    job,            \* deletion engine: the secureDeleteDirectory call in progress
    stack,          \* deletion engine: the secureRemoveAll activations, innermost last
    state,          \* ui.Model.state
    uiTargets,      \* ui.Model.targets
    selectedItems,  \* ui.Model.selectedItems: index -> bool (a Go map)
    cursor,         \* ui.Model.list.Index()
    deleteProgress, \* ui.Model.deleteProgress: index -> DeleteProgress
    deletedCount,   \* ui.Model.deletedCount
    totalFreed,     \* ui.Model.totalFreed
    uiErr,          \* ui.Model.err
    cmds,           \* tea commands started and not yet finished
    msgs,           \* tea messages sent and not yet handled by Update
    quit,           \* tea.Quit was returned: the event loop has stopped
    summary,        \* what printSummaryAndExit printed
    scanDir,        \* scanner.Scanner.workingDir
    scanPc,         \* where Scan is: "new", "scanning", "returned"
    walkTodo,       \* the walker goroutine: the paths filepath.Walk has still to visit
    workQueue,      \* parallelScan's workQueue channel
    workClosed,     \* workQueue is closed
    workers,        \* the worker goroutines: position and the item in hand
    resultQueue,    \* parallelScan's resultQueue channel
    resultClosed,   \* resultQueue is closed
    scanTargets,    \* scanner.Scanner.targets
    visited,        \* the paths the walk function was called on
    dropped,        \* the paths whose work item found the queue full
    targetsMutex,   \* scanner.Scanner.targetsMutex: a writer holds it, readers hold it
    collector,      \* the collecting loop of parallelScan: position and the result in hand
    getter,         \* a concurrent caller of GetTargets: position
    got,            \* the slice GetTargets returned to that caller
    sizer,          \* one call of calculateDirSizeConcurrent: the walk and its goroutines
    built           \* one call of scanner.New: its position, runtime.NumCPU() and numWorkers

valVars == <<vIn, vOut, vPath, vRes, newDir, newErr>>
engVars == <<job, stack>>
uiVars == <<state, uiTargets, selectedItems, cursor, deleteProgress, deletedCount,
            totalFreed, uiErr, cmds, msgs, quit, summary>>
scanVars == <<scanDir, scanPc, walkTodo, workQueue, workClosed, workers, resultQueue,
              resultClosed, scanTargets, visited, dropped, targetsMutex, collector, getter,
              got, sizer, built>>

-----------------------------------------------------------------------------
(* Bounds of the model *)

\* resolution follows at most this many symlinks (the kernel's ELOOP limit, scaled)
MaxLinkHops == 3
\* candidates handed to one ValidateTargets call
MaxTargets == 2
\* steps the external actor takes during one run
MaxExtActs == 1
\* runtime.NumCPU() answers a number from 1 to this
MaxCPU == 32
\* the scan's goroutines and channel capacities, scaled down
NumWorkers == 2
WorkQueueCap == 2
ResultQueueCap == 1

-----------------------------------------------------------------------------
(* Strings and the path/filepath functions the cleaner calls *)

Sep == "/"
Dot == <<".">>
DotDot == <<".", ".">>
NUL == "<00>"
BAD == "<ff>"

HasPrefix(s, p) == Len(s) >= Len(p) /\ SubSeq(s, 1, Len(p)) = p

Contains(s, sub) ==
    \E i \in 1..(Len(s) + 1) : i + Len(sub) - 1 <= Len(s) /\ SubSeq(s, i, i + Len(sub) - 1) = sub

ValidString(s) == \A i \in 1..Len(s) : s[i] # BAD

IsAbs(s) == Len(s) > 0 /\ s[1] = Sep

RECURSIVE SplitAcc(_, _, _)
SplitAcc(s, cur, acc) ==
    IF s = <<>> THEN (IF cur = <<>> THEN acc ELSE Append(acc, cur))
    ELSE IF Head(s) = Sep
         THEN SplitAcc(Tail(s), <<>>, IF cur = <<>> THEN acc ELSE Append(acc, cur))
         ELSE SplitAcc(Tail(s), Append(cur, Head(s)), acc)

\* the segments of a string, empty segments (repeated separators) dropped
Split(s) == SplitAcc(s, <<>>, <<>>)

RECURSIVE JoinSegs(_)
JoinSegs(segs) ==
    IF segs = <<>> THEN <<>>
    ELSE IF Len(segs) = 1 THEN segs[1]
    ELSE segs[1] \o <<Sep>> \o JoinSegs(Tail(segs))

RECURSIVE CleanStack(_, _, _)
CleanStack(segs, out, rooted) ==
    IF segs = <<>> THEN out
    ELSE LET s == Head(segs)
             rest == Tail(segs)
         IN  IF s = Dot THEN CleanStack(rest, out, rooted)
             ELSE IF s = DotDot
                  THEN IF out # <<>> /\ out[Len(out)] # DotDot
                       THEN CleanStack(rest, SubSeq(out, 1, Len(out) - 1), rooted)
                       ELSE IF rooted THEN CleanStack(rest, out, rooted)
                       ELSE CleanStack(rest, Append(out, DotDot), rooted)
                  ELSE CleanStack(rest, Append(out, s), rooted)

\* filepath.Clean
Clean(s) ==
    IF s = <<>> THEN Dot
    ELSE LET rooted == s[1] = Sep
             st == CleanStack(Split(s), <<>>, rooted)
         IN  IF rooted THEN <<Sep>> \o JoinSegs(st)
             ELSE IF st = <<>> THEN Dot ELSE JoinSegs(st)

\* filepath.Join of two elements
Join(a, b) ==
    IF a = <<>> THEN (IF b = <<>> THEN <<>> ELSE Clean(b))
    ELSE IF b = <<>> THEN Clean(a) ELSE Clean(a \o <<Sep>> \o b)

\* filepath.Abs with the process's current directory cwd
Abs(cwd, s) == IF IsAbs(s) THEN Clean(s) ELSE Join(cwd, s)

RECURSIVE LastSep(_, _)
LastSep(s, i) == IF i = 0 THEN 0 ELSE IF s[i] = Sep THEN i ELSE LastSep(s, i - 1)

\* filepath.Dir
Dir(s) == Clean(SubSeq(s, 1, LastSep(s, Len(s))))

RECURSIVE CommonLen(_, _)
CommonLen(a, b) ==
    IF a = <<>> \/ b = <<>> \/ Head(a) # Head(b) THEN 0
    ELSE 1 + CommonLen(Tail(a), Tail(b))

\* filepath.Rel: [ok, rel]
Rel(basepath, targpath) ==
    LET base == Clean(basepath)
        targ == Clean(targpath)
        bs == Split(IF base = Dot THEN <<>> ELSE base)
        ts == Split(IF targ = Dot THEN <<>> ELSE targ)
        k == CommonLen(bs, ts)
        ups == [i \in 1..(Len(bs) - k) |-> DotDot]
        downs == SubSeq(ts, k + 1, Len(ts))
    IN  IF targ = base THEN [ok |-> TRUE, rel |-> Dot]
        ELSE IF IsAbs(base) # IsAbs(targ) THEN [ok |-> FALSE, rel |-> <<>>]
        ELSE IF k < Len(bs) /\ bs[k + 1] = DotDot THEN [ok |-> FALSE, rel |-> <<>>]
        ELSE [ok |-> TRUE, rel |-> JoinSegs(ups \o downs)]

-----------------------------------------------------------------------------
(* The filesystem and the system calls the program makes *)

Node(kind, dest, dev, size) ==
    [kind |-> kind, dest |-> dest, dev |-> dev, size |-> size, readable |-> TRUE]
DirNode(dev) == Node("dir", <<>>, dev, 0)
FileNode(dev, size) == Node("file", <<>>, dev, size)
LinkNode(dev, dest) == Node("link", dest, dev, 0)

Parent(pp) == IF pp = <<>> THEN <<>> ELSE SubSeq(pp, 1, Len(pp) - 1)

\* pp lies at or below the location top
Under(pp, top) == Len(pp) >= Len(top) /\ SubSeq(pp, 1, Len(top)) = top

\* the string naming a physical location
RECURSIVE StrOf(_)
StrOf(pp) == IF pp = <<>> THEN <<>> ELSE <<Sep>> \o Head(pp) \o StrOf(Tail(pp))
Str(pp) == IF pp = <<>> THEN <<Sep>> ELSE StrOf(pp)

NoEnt == [ok |-> FALSE, phys |-> <<>>]

\* path resolution as the kernel does it: "." and ".." are resolved on the
\* physical tree, symlinks are followed except, without followLast, the last one
RECURSIVE Walk(_, _, _, _, _)
Walk(f, cur, segs, followLast, hops) ==
    IF segs = <<>> THEN [ok |-> TRUE, phys |-> cur]
    ELSE IF cur \notin DOMAIN f \/ f[cur].kind # "dir" THEN NoEnt
    ELSE LET s == Head(segs)
             rest == Tail(segs)
             nxt == Append(cur, s)
         IN  IF s = Dot THEN Walk(f, cur, rest, followLast, hops)
             ELSE IF s = DotDot THEN Walk(f, Parent(cur), rest, followLast, hops)
             ELSE IF nxt \notin DOMAIN f THEN NoEnt
             ELSE IF f[nxt].kind = "link" /\ (rest # <<>> \/ followLast)
                  THEN IF hops = 0 THEN NoEnt
                       ELSE Walk(f, <<>>, f[nxt].dest \o rest, followLast, hops - 1)
                  ELSE Walk(f, nxt, rest, followLast, hops)

Resolve(f, cwd, s, followLast) ==
    IF s = <<>> \/ (\E i \in 1..Len(s) : s[i] = NUL) THEN NoEnt
    ELSE Walk(f, IF IsAbs(s) THEN <<>> ELSE cwd, Split(s), followLast, MaxLinkHops)

\* os.Lstat: [ok, kind, dev, phys]
Lstat(f, cwd, s) ==
    LET r == Resolve(f, cwd, s, FALSE)
    IN  IF r.ok THEN [ok |-> TRUE, kind |-> f[r.phys].kind, dev |-> f[r.phys].dev, phys |-> r.phys]
        ELSE [ok |-> FALSE, kind |-> "none", dev |-> 0, phys |-> <<>>]


\* os.Lstat's error is "does not exist" (os.IsNotExist)
IsNotExist(st) == ~st.ok

-----------------------------------------------------------------------------
(* The worlds the runs start from *)

W == <<"w">>
W2 == <<"w", "2">>
Project == <<"project">>
NodeModules == <<"node_modules">>
Dist == <<"dist">>
Pkg == <<"pkg">>
F == <<"f">>
Lnk == <<"lnk">>
Sl == <<"sl">>
Regular == <<"regular">>
DotDotCache == <<".", ".", "cache">>
Mnt == <<"mnt">>
Out == <<"o">>
Nonexistent == <<"nonexistent">>

\* physical locations
WorkDir == <<W>>
OutDir == <<Out>>
ProjectDir == <<W, Project>>
TargetDir == <<W, Project, NodeModules>>
PkgDir == <<W, Project, NodeModules, Pkg>>
DistDir == <<W, Dist>>

\* the working directory as the program names it (os.Getwd)
Cwd == Str(WorkDir)

BaseWorld ==
    (<<>> :> DirNode(1)) @@
    (WorkDir :> DirNode(1)) @@
    (ProjectDir :> DirNode(1)) @@
    (TargetDir :> DirNode(1)) @@
    (Append(TargetDir, F) :> FileNode(1, 5000)) @@
    (PkgDir :> DirNode(1)) @@
    (Append(PkgDir, F) :> FileNode(1, 0)) @@
    (DistDir :> DirNode(1)) @@
    (Append(DistDir, F) :> FileNode(1, 100)) @@
    (<<W, Regular>> :> FileNode(1, 100)) @@
    (<<W, Sl>> :> LinkNode(1, OutDir)) @@
    (<<W, DotDotCache>> :> DirNode(1)) @@
    (<<W, Mnt>> :> DirNode(2)) @@
    (<<W2>> :> DirNode(1)) @@
    (OutDir :> DirNode(1)) @@
    (<<Out, F>> :> FileNode(1, 7)) @@
    (<<Out, NodeModules>> :> DirNode(1)) @@
    (<<Out, NodeModules, F>> :> FileNode(1, 7))

\* the nodes of f except the subtree at top
Without(f, top) == [pp \in {q \in DOMAIN f : ~Under(q, top)} |-> f[pp]]

\* the target holds a symlink to a directory outside the working directory
LinkWorld == BaseWorld @@ (Append(TargetDir, Lnk) :> LinkNode(1, OutDir))

\* the target's parent is a symlink to a directory outside the working directory
SymAncestorWorld == Without(BaseWorld, ProjectDir) @@ (ProjectDir :> LinkNode(1, OutDir))

Worlds == {BaseWorld, LinkWorld, SymAncestorWorld}

\* a package directory inside the target is the mount point of another volume
MountEntryWorld ==
    [BaseWorld EXCEPT ![PkgDir] = DirNode(2), ![Append(PkgDir, F)] = FileNode(2, 0)]

\* the worlds one secureDeleteDirectory call is run on
EngineWorlds == Worlds \cup {MountEntryWorld}

\* the locations of the world outside the working directory's subtree
Outside(f) == {pp \in DOMAIN f : ~Under(pp, WorkDir)}

-----------------------------------------------------------------------------
(* internal/scanner: the catalog *)

DotNext == <<".", "next">>
Src == <<"src">>
Coverage == <<"coverage">>
Tmp == <<"tmp">>
Build == <<"build">>

CommonCleanupDirs ==
    (NodeModules :> "Node.js/Bun.js dependencies") @@
    (DotNext :> "Next.js build cache") @@
    (Dist :> "Distribution/build files") @@
    (<<".", "nuxt">> :> "Nuxt.js build cache") @@
    (<<".", "output">> :> "Nuxt 3 output") @@
    (<<".", "cache">> :> "Cache directory") @@
    (Coverage :> "Test coverage reports") @@
    (<<".", "nyc_output">> :> "NYC test coverage") @@
    (Tmp :> "Temporary files") @@
    (<<"temp">> :> "Temporary files") @@
    (<<".", "parcel-cache">> :> "Parcel bundler cache") @@
    (<<".", "turbo">> :> "Turborepo cache") @@
    (<<".", "webpack">> :> "Webpack cache") @@
    (<<".", "rollup", ".", "cache">> :> "Rollup cache") @@
    (<<".", "vite">> :> "Vite cache") @@
    (<<".", "swc">> :> "SWC cache") @@
    (<<"lib-cov">> :> "Library coverage") @@
    (<<".", "DS_Store">> :> "macOS metadata") @@
    (<<"Thumbs", ".", "db">> :> "Windows metadata")

\* the directories of the README's table of supported targets
SupportedTargets ==
    {NodeModules,
     Dist, Build, <<".", "output">>,
     DotNext, <<".", "nuxt">>, <<".", "vite">>, <<".", "turbo">>,
     Coverage, <<".", "nyc_output">>, <<"lib-cov">>,
     <<".", "parcel-cache">>, <<".", "webpack">>, <<".", "rollup", ".", "cache">>,
     Tmp, <<"temp">>, <<".", "cache">>,
     <<".", "DS_Store">>, <<"Thumbs", ".", "db">>}

\* the lookup made in the README's table of names in place of the catalog
isCleanupTarget_Listed(name) == name \in SupportedTargets

isCleanupTarget(name) == name \in DOMAIN CommonCleanupDirs

getTargetType(name) == IF name \in DOMAIN CommonCleanupDirs THEN CommonCleanupDirs[name] ELSE "Unknown"

\* filepath.Base of a cleaned path
Base(s) == LET segs == Split(s) IN IF segs = <<>> THEN <<Sep>> ELSE segs[Len(segs)]

-----------------------------------------------------------------------------
(* internal/cleaner *)

Allow == [ok |-> TRUE, reason |-> "", security |-> FALSE]
SecurityError(reason) == [ok |-> FALSE, reason |-> reason, security |-> TRUE]
PlainError(reason) == [ok |-> FALSE, reason |-> reason, security |-> FALSE]

ReasonUTF8 == "path contains invalid UTF-8 characters"
ReasonNull == "path contains null bytes"
ReasonNormalization == "path normalization mismatch (potential traversal attack)"
ReasonOutside == "path is outside working directory"
ReasonItself == "cannot delete working directory itself"
ReasonTraversal == "path attempts to traverse outside working directory"
ReasonBoundary == "path crosses filesystem boundary"
ReasonParentSymlink == "parent directory is a symlink"
ReasonTargetSymlink == "target is a symlink, refusing to delete"
ReasonNotDirectory == "target is not a directory"
ReasonWorkingSymlink == "working directory cannot be a symlink"

NoCleaner == [workingDir |-> <<>>, workingDirDev |-> 0]

\* mutant: the working directory is examined with os.Stat, which follows a symlink
New_Stat(f, workingDir) ==
    LET absWorkingDir == Abs(Cwd, workingDir)
        r == Resolve(f, WorkDir, absWorkingDir, TRUE)
    IN  IF ~r.ok THEN [err |-> PlainError("failed to stat working directory"), c |-> NoCleaner]
        ELSE IF f[r.phys].kind # "dir"
             THEN [err |-> PlainError("working directory is not a directory"), c |-> NoCleaner]
        ELSE [err |-> Allow, c |-> [workingDir |-> absWorkingDir, workingDirDev |-> f[r.phys].dev]]

\* cleaner.New: [err, c]
New(f, workingDir) ==
    LET absWorkingDir == Abs(Cwd, workingDir)
        stat == Lstat(f, WorkDir, absWorkingDir)
    IN  IF ~stat.ok THEN [err |-> PlainError("failed to stat working directory"), c |-> NoCleaner]
        ELSE IF stat.kind # "dir"
             THEN [err |-> PlainError("working directory is not a directory"), c |-> NoCleaner]
        ELSE IF stat.kind = "link"
             THEN [err |-> SecurityError(ReasonWorkingSymlink), c |-> NoCleaner]
        ELSE [err |-> Allow, c |-> [workingDir |-> absWorkingDir, workingDirDev |-> stat.dev]]

RECURSIVE ComponentsLoop(_, _, _)
ComponentsLoop(c, f, current) ==
    LET parent == Dir(current)
        stat == Lstat(f, WorkDir, parent)
    IN  IF parent = current \/ parent = c.workingDir THEN Allow
        ELSE IF stat.ok /\ stat.kind = "link" THEN SecurityError(ReasonParentSymlink)
        ELSE ComponentsLoop(c, f, parent)

\* mutant: only the immediate parent is examined
validatePathComponents_ParentOnly(c, f, path) ==
    LET parent == Dir(path)
        stat == Lstat(f, WorkDir, parent)
    IN  IF parent = path \/ parent = c.workingDir THEN Allow
        ELSE IF stat.ok /\ stat.kind = "link" THEN SecurityError(ReasonParentSymlink)
        ELSE Allow

\* Cleaner.validatePathComponents
validatePathComponents(c, f, path) == ComponentsLoop(c, f, path)

\* mutant: the containment check (prefix test) is missing
validatePathSecurity_NoContainment(c, f, path) ==
    LET absPath == Abs(Cwd, path)
        rel == Rel(c.workingDir, absPath)
        stat == Lstat(f, WorkDir, absPath)
    IN  IF ~ValidString(path) THEN SecurityError(ReasonUTF8)
        ELSE IF Contains(path, <<NUL>>) THEN SecurityError(ReasonNull)
        ELSE IF absPath # Clean(absPath) THEN SecurityError(ReasonNormalization)
        ELSE IF absPath = c.workingDir THEN SecurityError(ReasonItself)
        ELSE IF ~rel.ok THEN PlainError("failed to compute relative path")
        ELSE IF HasPrefix(rel.rel, DotDot) \/ Contains(rel.rel, <<Sep>> \o DotDot)
             THEN SecurityError(ReasonTraversal)
        ELSE IF c.workingDirDev # 0 /\ stat.ok /\ stat.dev # c.workingDirDev
             THEN SecurityError(ReasonBoundary)
        ELSE ComponentsLoop(c, f, absPath)

\* mutant: the containment test comes before the encoding tests
validatePathSecurity_ContainmentFirst(c, f, path) ==
    LET absPath == Abs(Cwd, path)
        stat == Lstat(f, WorkDir, absPath)
    IN  IF ~HasPrefix(absPath \o <<Sep>>, c.workingDir \o <<Sep>>)
             THEN SecurityError(ReasonOutside)
        ELSE IF ~ValidString(path) THEN SecurityError(ReasonUTF8)
        ELSE IF Contains(path, <<NUL>>) THEN SecurityError(ReasonNull)
        ELSE IF absPath = c.workingDir THEN SecurityError(ReasonItself)
        ELSE IF HasPrefix(Rel(c.workingDir, absPath).rel, DotDot)
                \/ Contains(Rel(c.workingDir, absPath).rel, <<Sep>> \o DotDot)
             THEN SecurityError(ReasonTraversal)
        ELSE IF c.workingDirDev # 0 /\ stat.ok /\ stat.dev # c.workingDirDev
             THEN SecurityError(ReasonBoundary)
        ELSE ComponentsLoop(c, f, absPath)

\* mutant: equality with the working directory is not tested
validatePathSecurity_NoItself(c, f, path) ==
    LET absPath == Abs(Cwd, path)
        rel == Rel(c.workingDir, absPath)
        stat == Lstat(f, WorkDir, absPath)
    IN  IF ~ValidString(path) THEN SecurityError(ReasonUTF8)
        ELSE IF Contains(path, <<NUL>>) THEN SecurityError(ReasonNull)
        ELSE IF ~HasPrefix(absPath \o <<Sep>>, c.workingDir \o <<Sep>>)
             THEN SecurityError(ReasonOutside)
        ELSE IF HasPrefix(rel.rel, DotDot) \/ Contains(rel.rel, <<Sep>> \o DotDot)
             THEN SecurityError(ReasonTraversal)
        ELSE IF c.workingDirDev # 0 /\ stat.ok /\ stat.dev # c.workingDirDev
             THEN SecurityError(ReasonBoundary)
        ELSE ComponentsLoop(c, f, absPath)

\* Cleaner.validatePathSecurity: Allow (nil) or the error returned
validatePathSecurity(c, f, path) ==
    LET absPath == Abs(Cwd, path)
        cleanPath == Clean(absPath)
        rel == Rel(c.workingDir, absPath)
        stat == Lstat(f, WorkDir, absPath)
    IN  IF ~ValidString(path) THEN SecurityError(ReasonUTF8)
        ELSE IF Contains(path, <<NUL>>) THEN SecurityError(ReasonNull)
        ELSE IF absPath # cleanPath THEN SecurityError(ReasonNormalization)
        ELSE IF ~HasPrefix(absPath \o <<Sep>>, c.workingDir \o <<Sep>>)
             THEN SecurityError(ReasonOutside)
        ELSE IF absPath = c.workingDir THEN SecurityError(ReasonItself)
        ELSE IF ~rel.ok THEN PlainError("failed to compute relative path")
        ELSE IF HasPrefix(rel.rel, DotDot) \/ Contains(rel.rel, <<Sep>> \o DotDot)
             THEN SecurityError(ReasonTraversal)
        ELSE IF c.workingDirDev # 0 /\ stat.ok /\ stat.dev # c.workingDirDev
             THEN SecurityError(ReasonBoundary)
        ELSE validatePathComponents(c, f, absPath)

\* scanner.CleanupTarget as the scanner's workers fill it in
CleanupTarget(path, size) ==
    [Path |-> path, Name |-> Base(path), Size |-> size, Type |-> getTargetType(Base(path)),
     Selected |-> FALSE]

\* mutant: os.Stat (following a final symlink) instead of os.Lstat
KeepTarget_Stat(c, f, target) ==
    LET r == Resolve(f, WorkDir, target.Path, TRUE)
    IN  /\ validatePathSecurity(c, f, target.Path).ok
        /\ r.ok
        /\ f[r.phys].kind = "dir"

\* one iteration of the loop of ValidateTargets: is the target kept
KeepTarget(c, f, target) ==
    LET stat == Lstat(f, WorkDir, target.Path)
    IN  /\ validatePathSecurity(c, f, target.Path).ok
        /\ stat.ok
        /\ stat.kind # "link"
        /\ stat.kind = "dir"

RECURSIVE ValidateLoop(_, _, _, _)
ValidateLoop(c, f, targets, validTargets) ==
    IF targets = <<>> THEN validTargets
    ELSE ValidateLoop(c, f, Tail(targets),
                      IF KeepTarget(c, f, Head(targets))
                      THEN Append(validTargets, Head(targets)) ELSE validTargets)

\* Cleaner.ValidateTargets: [targets, err]
ValidateTargets(c, f, targets) == [targets |-> ValidateLoop(c, f, targets, <<>>), err |-> Allow]

-----------------------------------------------------------------------------
(* Candidate paths *)

CandValid == Str(TargetDir)
CandDist == Str(DistDir)
CandSymlinkDir == Str(<<W, Sl>>)
CandUnderSymlink == Str(<<W, Sl, NodeModules>>)
CandRegular == Str(<<W, Regular>>)
CandOutside == Str(<<Out, NodeModules>>)
CandNonexistent == Str(<<W, Nonexistent>>)
CandWorkDir == Str(WorkDir)
CandSibling == Str(<<W2>>)
CandTraversal == Str(WorkDir) \o <<Sep>> \o DotDot \o Str(OutDir)
CandInnerDots == Str(ProjectDir) \o <<Sep>> \o DotDot \o <<Sep>> \o Dist
CandDotDotCache == Str(<<W, DotDotCache>>)
CandMount == Str(<<W, Mnt>>)
CandNull == Str(DistDir) \o <<NUL>>
CandBadUTF8 == Str(WorkDir) \o <<Sep, BAD>>
CandRelative == Dist
CandRelativeUp == DotDot \o Str(OutDir)
CandPkg == Str(PkgDir)
CandOutsideNull == Str(OutDir) \o <<Sep, NUL>>

Candidates ==
    {CandValid, CandDist, CandSymlinkDir, CandUnderSymlink, CandRegular, CandOutside,
     CandNonexistent, CandWorkDir, CandSibling, CandTraversal, CandInnerDots,
     CandDotDotCache, CandMount, CandNull, CandBadUTF8, CandRelative, CandRelativeUp,
     CandPkg, CandOutsideNull}


-----------------------------------------------------------------------------
(* System calls that change the filesystem *)

Children(f, dir) == {pp \in DOMAIN f : Len(pp) = Len(dir) + 1 /\ Under(pp, dir)}

\* mutant: the last component is followed when it is a symlink
osRemove_FollowLast(f, lck, s) ==
    LET r == Resolve(f, WorkDir, s, TRUE)
        fail == [ok |-> FALSE, fs |-> f, phys |-> <<>>]
    IN  IF ~r.ok \/ r.phys = <<>> THEN fail
        ELSE IF r.phys \in lck THEN fail
        ELSE IF f[r.phys].kind = "dir" /\ Children(f, r.phys) # {} THEN fail
        ELSE [ok |-> TRUE, fs |-> Without(f, r.phys), phys |-> r.phys]

\* os.Remove: unlink or rmdir of the last component, which is not followed
osRemove(f, lck, s) ==
    LET r == Resolve(f, WorkDir, s, FALSE)
        fail == [ok |-> FALSE, fs |-> f, phys |-> <<>>]
    IN  IF ~r.ok \/ r.phys = <<>> THEN fail
        ELSE IF r.phys \in lck THEN fail
        ELSE IF f[r.phys].kind = "dir" /\ Children(f, r.phys) # {} THEN fail
        ELSE [ok |-> TRUE, fs |-> Without(f, r.phys), phys |-> r.phys]

\* os.Open followed by Readdir(-1): the directory is opened through symlinks,
\* the entries carry their own (lstat) mode
osReaddir(f, s) ==
    LET r == Resolve(f, WorkDir, s, TRUE)
    IN  IF ~r.ok \/ f[r.phys].kind # "dir" \/ ~f[r.phys].readable
        THEN [ok |-> FALSE, entries |-> {}]
        ELSE [ok |-> TRUE,
              entries |-> {[name |-> pp[Len(pp)], kind |-> f[pp].kind] : pp \in Children(f, r.phys)}]

\* the record of one mutating call: what was called on which path, and what
\* the validator says of that path at that instant
Call(op, c, f, s) == [op |-> op, path |-> s, allowed |-> validatePathSecurity(c, f, s).ok]

-----------------------------------------------------------------------------
(* Deletion engine: secureDeleteDirectory and secureRemoveAll, one system call a step *)

NoEntry == [name |-> <<>>, kind |-> "none"]
Frame(path) == [path |-> path, phase |-> "open", entries |-> {}, cur |-> NoEntry]
IdleJob == [path |-> <<>>, pc |-> "idle", err |-> Allow]
StartJob(path) == [path |-> path, pc |-> "validate", err |-> Allow]

Top == stack[Len(stack)]
Pop == SubSeq(stack, 1, Len(stack) - 1)
SetTop(fr) == [stack EXCEPT ![Len(stack)] = fr]

\* secureDeleteDirectory, line 63: the validator decides
SDDValidate ==
    /\ job.pc = "validate"
    /\ LET v == validatePathSecurity(cleaner, fs, job.path)
       IN  job' = IF v.ok THEN [job EXCEPT !.pc = "lstat"]
                  ELSE [job EXCEPT !.pc = "done", !.err = v]
    /\ UNCHANGED <<fs, removed, extActs, cleaner, calls, locked, stack, valVars, uiVars, scanVars>>

\* a variant that asks os.Stat for the target's type, which follows a symlink
SDDLstat_Stat ==
    /\ job.pc = "lstat"
    /\ LET r == Resolve(fs, WorkDir, job.path, TRUE)
       IN  IF ~r.ok
           THEN /\ job' = [job EXCEPT !.pc = "done", !.err = PlainError("directory does not exist")]
                /\ stack' = stack
           ELSE IF fs[r.phys].kind # "dir"
           THEN /\ job' = [job EXCEPT !.pc = "done", !.err = SecurityError(ReasonNotDirectory)]
                /\ stack' = stack
           ELSE /\ job' = [job EXCEPT !.pc = "removing"]
                /\ stack' = <<Frame(job.path)>>
    /\ UNCHANGED <<fs, removed, extActs, cleaner, calls, locked, valVars, uiVars, scanVars>>

\* secureDeleteDirectory, lines 67-89: the target's own type
SDDLstat ==
    /\ job.pc = "lstat"
    /\ LET stat == Lstat(fs, WorkDir, job.path)
       IN  IF IsNotExist(stat)
           THEN /\ job' = [job EXCEPT !.pc = "done", !.err = PlainError("directory does not exist")]
                /\ stack' = stack
           ELSE IF stat.kind = "link"
           THEN /\ job' = [job EXCEPT !.pc = "done", !.err = SecurityError(ReasonTargetSymlink)]
                /\ stack' = stack
           ELSE IF stat.kind # "dir"
           THEN /\ job' = [job EXCEPT !.pc = "done", !.err = SecurityError(ReasonNotDirectory)]
                /\ stack' = stack
           ELSE /\ job' = [job EXCEPT !.pc = "removing"]
                /\ stack' = <<Frame(job.path)>>
    /\ UNCHANGED <<fs, removed, extActs, cleaner, calls, locked, valVars, uiVars, scanVars>>

\* the innermost secureRemoveAll returns err to its caller
Return(err) ==
    /\ stack' = IF Len(stack) = 1 THEN <<>>
                ELSE [Pop EXCEPT ![Len(stack) - 1].phase = "entries",
                                 ![Len(stack) - 1].cur = NoEntry]
    /\ job' = IF Len(stack) = 1 THEN [job EXCEPT !.pc = "done", !.err = err] ELSE job

\* secureRemoveAll, lines 93-102
RAOpen ==
    /\ job.pc = "removing" /\ stack # <<>> /\ Top.phase = "open"
    /\ LET rd == osReaddir(fs, Top.path)
       IN  IF ~rd.ok THEN Return(PlainError("failed to open directory"))
           ELSE /\ stack' = SetTop([Top EXCEPT !.phase = "entries", !.entries = rd.entries])
                /\ job' = job
    /\ UNCHANGED <<fs, removed, extActs, cleaner, calls, locked, valVars, uiVars, scanVars>>

\* secureRemoveAll, lines 104-109: the next entry is validated
RAEntryValidate ==
    /\ job.pc = "removing" /\ stack # <<>> /\ Top.phase = "entries"
    /\ \E e \in Top.entries :
        LET v == validatePathSecurity(cleaner, fs, Join(Top.path, e.name))
        IN  stack' = SetTop([Top EXCEPT !.entries = Top.entries \ {e},
                                        !.phase = IF v.ok THEN "act" ELSE "entries",
                                        !.cur = IF v.ok THEN e ELSE NoEntry])
    /\ UNCHANGED <<fs, removed, extActs, cleaner, calls, locked, job, valVars, uiVars, scanVars>>

\* a variant of the entry step that returns the first failed removal to the
\* caller instead of going on to the next entry
RAEntryAct_AbortOnError ==
    /\ job.pc = "removing" /\ stack # <<>> /\ Top.phase = "act"
    /\ LET entryPath == Join(Top.path, Top.cur.name)
           rm == osRemove(fs, locked, entryPath)
       IN  IF Top.cur.kind = "dir"
           THEN /\ stack' = Append(stack, Frame(entryPath))
                /\ job' = job
                /\ UNCHANGED <<fs, removed, calls>>
           ELSE /\ fs' = rm.fs
                /\ removed' = IF rm.ok THEN removed \cup {rm.phys} ELSE removed
                /\ calls' = calls \cup {Call("Remove", cleaner, fs, entryPath)}
                /\ IF rm.ok
                   THEN /\ stack' = SetTop([Top EXCEPT !.phase = "entries", !.cur = NoEntry])
                        /\ job' = job
                   ELSE Return(PlainError("remove failed"))
    /\ UNCHANGED <<extActs, cleaner, locked, valVars, uiVars, scanVars>>

\* secureRemoveAll, lines 111-123: the validated entry is removed, or entered
RAEntryAct ==
    /\ job.pc = "removing" /\ stack # <<>> /\ Top.phase = "act"
    /\ LET entryPath == Join(Top.path, Top.cur.name)
           rm == osRemove(fs, locked, entryPath)
       IN  IF Top.cur.kind = "dir"
           THEN /\ stack' = Append(stack, Frame(entryPath))
                /\ UNCHANGED <<fs, removed, calls>>
           ELSE /\ fs' = rm.fs
                /\ removed' = IF rm.ok THEN removed \cup {rm.phys} ELSE removed
                /\ calls' = calls \cup {Call("Remove", cleaner, fs, entryPath)}
                /\ stack' = SetTop([Top EXCEPT !.phase = "entries", !.cur = NoEntry])
    /\ UNCHANGED <<extActs, cleaner, locked, job, valVars, uiVars, scanVars>>

\* a variant that ignores the result of the directory's own removal
RAFinalRemove_IgnoreError ==
    /\ job.pc = "removing" /\ stack # <<>> /\ Top.phase = "entries" /\ Top.entries = {}
    /\ LET rm == osRemove(fs, locked, Top.path)
       IN  /\ fs' = rm.fs
           /\ removed' = IF rm.ok THEN removed \cup {rm.phys} ELSE removed
           /\ calls' = calls \cup {Call("Remove", cleaner, fs, Top.path)}
           /\ Return(Allow)
    /\ UNCHANGED <<extActs, cleaner, locked, valVars, uiVars, scanVars>>

\* secureRemoveAll, line 126: the directory itself
RAFinalRemove ==
    /\ job.pc = "removing" /\ stack # <<>> /\ Top.phase = "entries" /\ Top.entries = {}
    /\ LET rm == osRemove(fs, locked, Top.path)
       IN  /\ fs' = rm.fs
           /\ removed' = IF rm.ok THEN removed \cup {rm.phys} ELSE removed
           /\ calls' = calls \cup {Call("Remove", cleaner, fs, Top.path)}
           /\ Return(IF rm.ok THEN Allow ELSE PlainError("remove failed"))
    /\ UNCHANGED <<extActs, cleaner, locked, valVars, uiVars, scanVars>>

\* the paths the returned error names: secureDeleteDirectory and the outermost
\* secureRemoveAll build every error from their own path argument, the errors
\* of entries end at a continue statement
ReportedPaths == IF job.pc = "done" /\ ~job.err.ok THEN {job.path} ELSE {}

-----------------------------------------------------------------------------
(* The external actor *)

\* a directory beneath the working directory is moved away and a symlink to a
\* directory outside the working directory takes its name
ExtReplaceDirBySymlink ==
    /\ extActs < MaxExtActs
    /\ \E d \in DOMAIN fs :
        /\ Under(d, WorkDir) /\ d # WorkDir /\ fs[d].kind = "dir"
        /\ fs' = Without(fs, d) @@ (d :> LinkNode(1, OutDir))
    /\ extActs' = extActs + 1
    /\ UNCHANGED <<removed, cleaner, calls, locked, job, stack, valVars, uiVars, scanVars>>

-----------------------------------------------------------------------------
(* internal/ui: the interactive model, its commands and messages *)

\* The spinner and the progress animation (progressTickMsg, DeleteProgress.Progress)
\* only feed the view; no handler reads them to decide anything.

StateScanning == "StateScanning"
StateSelectingTargets == "StateSelectingTargets"
StateConfirming == "StateConfirming"
StateDeleting == "StateDeleting"
StateCompletionDelay == "StateCompletionDelay"

Keys == {"q", "ctrl+c", " ", "enter", "a", "A", "p", "?", "y", "Y", "n", "N", "esc",
         "up", "down", "j", "k", "x"}

EmptyMap == [i \in {} |-> FALSE]
\* m[i] of a Go map of bool: false when the key is absent
MapGet(m, i) == IF i \in DOMAIN m THEN m[i] ELSE FALSE
MapPut(m, i, v) == [j \in DOMAIN m \cup {i} |-> IF j = i THEN v ELSE m[j]]

Indices == 0..(Len(uiTargets) - 1)
TargetAt(i) == uiTargets[i + 1]

\* Model.getSelectedTargetsWithIndices: the indices, in order
RECURSIVE SelectedFrom(_, _)
SelectedFrom(sel, i) ==
    IF i >= Len(uiTargets) THEN <<>>
    ELSE IF MapGet(sel, i) THEN <<i>> \o SelectedFrom(sel, i + 1)
    ELSE SelectedFrom(sel, i + 1)
getSelectedTargetsWithIndices == SelectedFrom(selectedItems, 0)

\* Model.getSelectedTargets
getSelectedTargets == [k \in 1..Len(getSelectedTargetsWithIndices) |->
                          TargetAt(getSelectedTargetsWithIndices[k])]

DeleteProgress(target, index) == [Target |-> target, Done |-> FALSE, OriginalIndex |-> index]

DeleteCmd(i) == [kind |-> "deleteDirectory", index |-> i]
ExitTimer == [kind |-> "exitTimer", index |-> 0]
deleteFinishedMsg(i) == [type |-> "deleteFinishedMsg", index |-> i]
errMsg(i) == [type |-> "errMsg", index |-> i]
exitAfterDelayMsg == [type |-> "exitAfterDelayMsg", index |-> 0]

\* the nodes os.RemoveAll cannot remove: the refused ones and the directories above them
Kept(f, lck, top) == {pp \in DOMAIN f : Under(pp, top) /\ \E q \in lck : q \in DOMAIN f /\ Under(q, pp)}

\* os.RemoveAll: nil when the path does not exist; the tree below the last
\* component, which is not followed, goes except what the system refuses
osRemoveAll(f, lck, s) ==
    LET r == Resolve(f, WorkDir, s, FALSE)
        gone == {pp \in DOMAIN f : Under(pp, r.phys)} \ Kept(f, lck, r.phys)
    IN  IF ~r.ok \/ r.phys = <<>> THEN [ok |-> TRUE, fs |-> f, gone |-> {}]
        ELSE [ok |-> Kept(f, lck, r.phys) = {},
              fs |-> [pp \in DOMAIN f \ gone |-> f[pp]],
              gone |-> gone]

\* a variant that starts a job for every listed target, selected or not
startDeletion_All ==
    /\ deleteProgress' = [i \in Indices |-> DeleteProgress(TargetAt(i), i)]
    /\ cmds' = cmds \cup {DeleteCmd(i) : i \in Indices}

\* Model.startDeletion: the progress entries and the commands of the selected targets
startDeletion ==
    /\ deleteProgress' =
          [i \in DOMAIN deleteProgress \cup {i \in Indices : MapGet(selectedItems, i)} |->
              IF MapGet(selectedItems, i) THEN DeleteProgress(TargetAt(i), i)
              ELSE deleteProgress[i]]
    /\ cmds' = cmds \cup {DeleteCmd(i) : i \in {j \in Indices : MapGet(selectedItems, j)}}

\* a selection screen whose enter starts the deletion at once
updateSelecting_NoConfirm(key) ==
    /\ UNCHANGED <<uiTargets, deletedCount, totalFreed, uiErr, msgs, summary>>
    /\ IF key = "enter" /\ Len(getSelectedTargets) > 0
       THEN state' = StateDeleting /\ startDeletion /\ UNCHANGED <<selectedItems, cursor, quit>>
       ELSE /\ UNCHANGED <<state, deleteProgress, cmds, cursor>>
            /\ quit' = (key \in {"q", "ctrl+c"})
            /\ selectedItems' = IF key = " " /\ cursor < Len(uiTargets)
                                THEN MapPut(selectedItems, cursor, ~MapGet(selectedItems, cursor))
                                ELSE selectedItems

\* Model.updateSelecting
updateSelecting(key) ==
    /\ UNCHANGED <<uiTargets, deleteProgress, deletedCount, totalFreed, uiErr, cmds, msgs, summary>>
    /\ CASE key \in {"q", "ctrl+c"} ->
              quit' = TRUE /\ UNCHANGED <<state, selectedItems, cursor>>
         [] key = " " ->
              /\ selectedItems' = IF cursor < Len(uiTargets)
                                  THEN MapPut(selectedItems, cursor, ~MapGet(selectedItems, cursor))
                                  ELSE selectedItems
              /\ UNCHANGED <<state, cursor, quit>>
         [] key = "enter" ->
              /\ state' = IF Len(getSelectedTargets) > 0 THEN StateConfirming ELSE state
              /\ UNCHANGED <<selectedItems, cursor, quit>>
         [] key = "a" ->
              /\ selectedItems' = [i \in DOMAIN selectedItems \cup Indices |->
                                      IF i \in Indices THEN TRUE ELSE selectedItems[i]]
              /\ UNCHANGED <<state, cursor, quit>>
         [] key = "A" ->
              selectedItems' = EmptyMap /\ UNCHANGED <<state, cursor, quit>>
         [] key \in {"up", "k"} ->
              /\ cursor' = IF cursor > 0 THEN cursor - 1 ELSE cursor
              /\ UNCHANGED <<state, selectedItems, quit>>
         [] key \in {"down", "j"} ->
              /\ cursor' = IF cursor < Len(uiTargets) - 1 THEN cursor + 1 ELSE cursor
              /\ UNCHANGED <<state, selectedItems, quit>>
         [] OTHER -> UNCHANGED <<state, selectedItems, cursor, quit>>

\* a confirmation screen on which q and ctrl+c end the program, as they do on
\* the selection screen
updateConfirming_QuitKeys(key) ==
    /\ UNCHANGED <<uiTargets, selectedItems, cursor, deletedCount, totalFreed, uiErr, msgs, summary>>
    /\ CASE key \in {"y", "Y", "enter"} ->
              state' = StateDeleting /\ startDeletion /\ quit' = quit
         [] key \in {"n", "N", "esc"} ->
              state' = StateSelectingTargets /\ UNCHANGED <<deleteProgress, cmds, quit>>
         [] key \in {"q", "ctrl+c"} ->
              quit' = TRUE /\ UNCHANGED <<state, deleteProgress, cmds>>
         [] OTHER -> UNCHANGED <<state, deleteProgress, cmds, quit>>

\* Model.updateConfirming
updateConfirming(key) ==
    /\ UNCHANGED <<uiTargets, selectedItems, cursor, deletedCount, totalFreed, uiErr, msgs,
                   quit, summary>>
    /\ CASE key \in {"y", "Y", "enter"} ->
              state' = StateDeleting /\ startDeletion
         [] key \in {"n", "N", "q", "ctrl+c", "esc"} ->
              state' = StateSelectingTargets /\ UNCHANGED <<deleteProgress, cmds>>
         [] OTHER -> UNCHANGED <<state, deleteProgress, cmds>>

\* Model.updateDeleting
updateDeleting(key) ==
    /\ quit' = IF key \in {"q", "ctrl+c"} THEN TRUE ELSE quit
    /\ UNCHANGED <<state, uiTargets, selectedItems, cursor, deleteProgress, deletedCount,
                   totalFreed, uiErr, cmds, msgs, summary>>

\* Model.printSummaryAndExit
printSummaryAndExit == summary' = [deletedCount |-> deletedCount, totalBytesFreed |-> totalFreed]

\* Model.updateCompletionDelay
updateCompletionDelay(key) ==
    /\ printSummaryAndExit
    /\ quit' = TRUE
    /\ UNCHANGED <<state, uiTargets, selectedItems, cursor, deleteProgress, deletedCount,
                   totalFreed, uiErr, cmds, msgs>>

\* Model.Update, case tea.KeyMsg
KeyMsg ==
    /\ ~quit
    /\ \E key \in Keys :
          CASE state = StateSelectingTargets -> updateSelecting(key)
            [] state = StateConfirming -> updateConfirming(key)
            [] state = StateDeleting -> updateDeleting(key)
            [] state = StateCompletionDelay -> updateCompletionDelay(key)
            [] OTHER -> UNCHANGED uiVars
    /\ UNCHANGED <<fs, removed, extActs, cleaner, calls, locked, valVars, engVars, scanVars>>

\* Model.deleteDirectory: the command of one target runs os.RemoveAll
RunDeleteDirectory ==
    /\ \E c \in cmds :
        /\ c.kind = "deleteDirectory"
        /\ LET path == TargetAt(c.index).Path
               rm == osRemoveAll(fs, locked, path)
           IN  /\ fs' = rm.fs
               /\ removed' = removed \cup rm.gone
               /\ calls' = calls \cup {Call("RemoveAll", cleaner, fs, path)}
               /\ msgs' = msgs \cup {IF rm.ok THEN deleteFinishedMsg(c.index) ELSE errMsg(c.index)}
        /\ cmds' = cmds \ {c}
    /\ UNCHANGED <<extActs, cleaner, locked, valVars, engVars, scanVars, state, uiTargets, selectedItems,
                   cursor, deleteProgress, deletedCount, totalFreed, uiErr, quit, summary>>

\* a variant that leaves the deleting state at the first finished job
HandleDeleteFinished_First ==
    /\ ~quit
    /\ \E m \in msgs :
        /\ m.type = "deleteFinishedMsg"
        /\ msgs' = msgs \ {m}
        /\ LET exists == m.index \in DOMAIN deleteProgress
               dp == IF exists THEN [deleteProgress EXCEPT ![m.index].Done = TRUE]
                     ELSE deleteProgress
           IN  /\ deleteProgress' = dp
               /\ deletedCount' = IF exists THEN deletedCount + 1 ELSE deletedCount
               /\ totalFreed' = IF exists THEN totalFreed + deleteProgress[m.index].Target.Size
                                ELSE totalFreed
               /\ state' = StateCompletionDelay
               /\ cmds' = cmds \cup {ExitTimer}
    /\ UNCHANGED <<fs, removed, extActs, cleaner, calls, locked, valVars, engVars, scanVars, uiTargets,
                   selectedItems, cursor, uiErr, quit, summary>>

\* Model.Update, case deleteFinishedMsg
HandleDeleteFinished ==
    /\ ~quit
    /\ \E m \in msgs :
        /\ m.type = "deleteFinishedMsg"
        /\ msgs' = msgs \ {m}
        /\ LET exists == m.index \in DOMAIN deleteProgress
               dp == IF exists THEN [deleteProgress EXCEPT ![m.index].Done = TRUE]
                     ELSE deleteProgress
               allDone == \A i \in DOMAIN dp : dp[i].Done
           IN  /\ deleteProgress' = dp
               /\ deletedCount' = IF exists THEN deletedCount + 1 ELSE deletedCount
               /\ totalFreed' = IF exists THEN totalFreed + deleteProgress[m.index].Target.Size
                                ELSE totalFreed
               /\ state' = IF allDone THEN StateCompletionDelay ELSE state
               /\ cmds' = IF allDone THEN cmds \cup {ExitTimer} ELSE cmds
    /\ UNCHANGED <<fs, removed, extActs, cleaner, calls, locked, valVars, engVars, scanVars, uiTargets,
                   selectedItems, cursor, uiErr, quit, summary>>

\* a variant that counts the failed job as a deleted directory
HandleErr_Counted ==
    /\ ~quit
    /\ \E m \in msgs :
        /\ m.type = "errMsg"
        /\ msgs' = msgs \ {m}
        /\ uiErr' = "os.RemoveAll failed"
        /\ deletedCount' = deletedCount + 1
        /\ totalFreed' = totalFreed + TargetAt(m.index).Size
    /\ UNCHANGED <<fs, removed, extActs, cleaner, calls, locked, valVars, engVars, scanVars, state,
                   uiTargets, selectedItems, cursor, deleteProgress,
                   cmds, quit, summary>>

\* Model.Update, case errMsg
HandleErr ==
    /\ ~quit
    /\ \E m \in msgs :
        /\ m.type = "errMsg"
        /\ msgs' = msgs \ {m}
        /\ uiErr' = "os.RemoveAll failed"
    /\ UNCHANGED <<fs, removed, extActs, cleaner, calls, locked, valVars, engVars, scanVars, state,
                   uiTargets, selectedItems, cursor, deleteProgress, deletedCount, totalFreed,
                   cmds, quit, summary>>

\* the five-second tick started on entering the completion state
ExitTimerFires ==
    /\ ExitTimer \in cmds
    /\ cmds' = cmds \ {ExitTimer}
    /\ msgs' = msgs \cup {exitAfterDelayMsg}
    /\ UNCHANGED <<fs, removed, extActs, cleaner, calls, locked, valVars, engVars, scanVars, state,
                   uiTargets, selectedItems, cursor, deleteProgress, deletedCount, totalFreed,
                   uiErr, quit, summary>>

\* Model.Update, case exitAfterDelayMsg
HandleExitAfterDelay ==
    /\ ~quit
    /\ exitAfterDelayMsg \in msgs
    /\ msgs' = msgs \ {exitAfterDelayMsg}
    /\ printSummaryAndExit
    /\ quit' = TRUE
    /\ UNCHANGED <<fs, removed, extActs, cleaner, calls, locked, valVars, engVars, scanVars, state,
                   uiTargets, selectedItems, cursor, deleteProgress, deletedCount, totalFreed,
                   uiErr, cmds>>

\* the external actor removes a directory beneath the working directory
ExtRemoveDir ==
    /\ extActs < MaxExtActs
    /\ \E d \in DOMAIN fs :
        /\ Under(d, WorkDir) /\ d # WorkDir /\ fs[d].kind = "dir"
        /\ fs' = Without(fs, d)
    /\ extActs' = extActs + 1
    /\ UNCHANGED <<removed, cleaner, calls, locked, valVars, engVars, uiVars, scanVars>>

-----------------------------------------------------------------------------
(* internal/scanner: Scan, the walker, the workers and the collector *)

PkgDistDir == <<W, Project, NodeModules, Pkg, Dist>>

\* the tree of TestScan (project with node_modules, .next and src) with a
\* catalog-named directory inside a target and a catalog-named symlink, and a
\* second tree whose root carries a catalog name
ScanWorld ==
    (<<>> :> DirNode(1)) @@
    (WorkDir :> DirNode(1)) @@
    (<<W, Coverage>> :> LinkNode(1, OutDir)) @@
    (ProjectDir :> DirNode(1)) @@
    (<<W, Project, DotNext>> :> DirNode(1)) @@
    (TargetDir :> DirNode(1)) @@
    (Append(TargetDir, F) :> FileNode(1, 5000)) @@
    (PkgDir :> DirNode(1)) @@
    (PkgDistDir :> DirNode(1)) @@
    (Append(PkgDistDir, F) :> FileNode(1, 20)) @@
    (<<W, Project, Src>> :> DirNode(1)) @@
    (OutDir :> DirNode(1)) @@
    (<<Tmp>> :> DirNode(1)) @@
    (<<Tmp, Project>> :> DirNode(1)) @@
    (<<Tmp, Project, NodeModules>> :> DirNode(1))

\* the byte order of the names, as the sorted directory listing of filepath.Walk has it
NameOrder == <<DotDotCache, DotNext, Build, Coverage, Dist, F, Lnk, Mnt, NodeModules, Nonexistent,
               Out, Pkg, Project, Regular, Sl, Src, Tmp, W, W2>>

\* the names of a set, sorted
SortNames(names) == SelectSeq(NameOrder, LAMBDA n : n \in names)

RECURSIVE SumSizes(_, _)
SumSizes(f, locs) ==
    IF locs = {} THEN 0
    ELSE LET pp == CHOOSE q \in locs : TRUE IN f[pp].size + SumSizes(f, locs \ {pp})

\* Scanner.calculateDirSizeConcurrent: the sizes of the entries that are not directories
calculateDirSizeConcurrent(f, dirPath) ==
    LET r == Resolve(f, WorkDir, dirPath, FALSE)
    IN  IF ~r.ok THEN 0
        ELSE SumSizes(f, {pp \in DOMAIN f : Under(pp, r.phys) /\ f[pp].kind # "dir"})

workItem(path) == [path |-> path, name |-> Base(path)]
EmptyTarget == [Path |-> <<>>, Name |-> <<>>, Size |-> 0, Type |-> "", Selected |-> FALSE]

\* mutant: the walk function never answers SkipDir
walkFn_NoSkip(f, path) ==
    [send |-> Lstat(f, WorkDir, path).kind = "dir", skip |-> FALSE]

\* the walk function of walkDirectoryNoProgress: a directory is offered to the
\* work queue, and a catalog-named directory is not entered
walkFn(f, path) ==
    LET info == Lstat(f, WorkDir, path)
    IN  [send |-> info.kind = "dir",
         skip |-> info.kind = "dir" /\ isCleanupTarget(Base(path))]

\* Scanner.Scan and the start of parallelScan: the target list is emptied and
\* the goroutines are started
Scan ==
    /\ scanPc = "new"
    /\ scanPc' = "scanning"
    /\ scanTargets' = <<>>
    /\ walkTodo' = <<scanDir>>
    /\ UNCHANGED <<fs, removed, extActs, cleaner, calls, locked, valVars, engVars, uiVars,
                   sizer, built,
                   targetsMutex, collector, getter, got,
                   scanDir, workQueue, workClosed, workers, resultQueue, resultClosed,
                   visited, dropped>>

\* one call of the walk function by filepath.Walk, with the non-blocking send
WalkStep ==
    /\ scanPc = "scanning"
    /\ walkTodo # <<>>
    /\ LET path == Head(walkTodo)
           fn == walkFn(fs, path)
           rd == osReaddir(fs, path)
           names == SortNames({e.name : e \in rd.entries})
           below == IF Lstat(fs, WorkDir, path).kind = "dir" /\ ~fn.skip
                    THEN [k \in 1..Len(names) |-> Join(path, names[k])]
                    ELSE <<>>
           full == Len(workQueue) >= WorkQueueCap
       IN  /\ walkTodo' = below \o Tail(walkTodo)
           /\ workQueue' = IF fn.send /\ ~full THEN Append(workQueue, workItem(path))
                           ELSE workQueue
           /\ dropped' = IF fn.send /\ full THEN dropped \cup {path} ELSE dropped
           /\ visited' = visited \cup {path}
    /\ UNCHANGED <<fs, removed, extActs, cleaner, calls, locked, valVars, engVars, uiVars,
                   sizer,
                   targetsMutex, collector, getter, got, built,
                   scanDir, scanPc, workClosed, workers, resultQueue, resultClosed,
                   scanTargets>>

\* a walker goroutine that ends without closing workQueue
WalkerReturn_NoClose ==
    /\ scanPc = "scanning"
    /\ walkTodo = <<>>
    /\ ~workClosed
    /\ UNCHANGED <<fs, removed, extActs, cleaner, calls, locked, valVars, engVars, uiVars,
                   scanVars>>

\* the walker goroutine ends: the deferred close(workQueue)
WalkerReturn ==
    /\ scanPc = "scanning"
    /\ walkTodo = <<>>
    /\ ~workClosed
    /\ workClosed' = TRUE
    /\ UNCHANGED <<fs, removed, extActs, cleaner, calls, locked, valVars, engVars, uiVars,
                   sizer,
                   targetsMutex, collector, getter, got, built,
                   scanDir, scanPc, walkTodo, workQueue, workers, resultQueue, resultClosed,
                   scanTargets, visited, dropped>>

\* workerNoProgress: the receive of the range loop
WorkerRecv ==
    /\ scanPc = "scanning"
    /\ \E w \in DOMAIN workers :
        /\ workers[w].pc = "recv"
        /\ \/ /\ workQueue # <<>>
              /\ workers' = [workers EXCEPT ![w] = [pc |-> "send", item |-> Head(workQueue)]]
              /\ workQueue' = Tail(workQueue)
           \/ /\ workQueue = <<>>
              /\ workClosed
              /\ workers' = [workers EXCEPT ![w].pc = "done"]
              /\ UNCHANGED workQueue
    /\ UNCHANGED <<fs, removed, extActs, cleaner, calls, locked, valVars, engVars, uiVars,
                   sizer,
                   targetsMutex, collector, getter, got, built,
                   scanDir, scanPc, walkTodo, workClosed, resultQueue, resultClosed,
                   scanTargets, visited, dropped>>

\* workerNoProgress: the body of the loop, ending in the blocking send of the result
WorkerSend ==
    /\ scanPc = "scanning"
    /\ Len(resultQueue) < ResultQueueCap
    /\ \E w \in DOMAIN workers :
        /\ workers[w].pc = "send"
        /\ LET item == workers[w].item
               target == IF isCleanupTarget(item.name)
                         THEN CleanupTarget(item.path, calculateDirSizeConcurrent(fs, item.path))
                         ELSE EmptyTarget
           IN  resultQueue' = Append(resultQueue, target)
        /\ workers' = [workers EXCEPT ![w] = [pc |-> "recv", item |-> workItem(<<>>)]]
    /\ UNCHANGED <<fs, removed, extActs, cleaner, calls, locked, valVars, engVars, uiVars,
                   sizer,
                   targetsMutex, collector, getter, got, built,
                   scanDir, scanPc, walkTodo, workQueue, workClosed, resultClosed,
                   scanTargets, visited, dropped>>

\* the goroutine of parallelScan that waits for the workers and closes resultQueue
CloseResults ==
    /\ scanPc = "scanning"
    /\ ~resultClosed
    /\ \A w \in DOMAIN workers : workers[w].pc = "done"
    /\ resultClosed' = TRUE
    /\ UNCHANGED <<fs, removed, extActs, cleaner, calls, locked, valVars, engVars, uiVars,
                   sizer,
                   targetsMutex, collector, getter, got, built,
                   scanDir, scanPc, walkTodo, workQueue, workClosed, workers, resultQueue,
                   scanTargets, visited, dropped>>

\* parallelScan: one round of the collecting loop
Collect ==
    /\ scanPc = "scanning"
    /\ resultQueue # <<>>
    /\ resultQueue' = Tail(resultQueue)
    /\ scanTargets' = IF Head(resultQueue).Path # <<>> THEN Append(scanTargets, Head(resultQueue))
                      ELSE scanTargets
    /\ UNCHANGED <<fs, removed, extActs, cleaner, calls, locked, valVars, engVars, uiVars,
                   sizer,
                   targetsMutex, collector, getter, got, built,
                   scanDir, scanPc, walkTodo, workQueue, workClosed, workers, resultClosed,
                   visited, dropped>>

\* parallelScan and Scan return once resultQueue is closed and drained
ScanReturn ==
    /\ scanPc = "scanning"
    /\ resultQueue = <<>>
    /\ resultClosed
    /\ scanPc' = "returned"
    /\ UNCHANGED <<fs, removed, extActs, cleaner, calls, locked, valVars, engVars, uiVars,
                   sizer, built,
                   targetsMutex, collector, getter, got,
                   scanDir, walkTodo, workQueue, workClosed, workers, resultQueue,
                   resultClosed, scanTargets, visited, dropped>>

-----------------------------------------------------------------------------
(* internal/scanner, the WalkDir scanner: walkDirectory, worker, calculateDirSize *)

blockSize == 4096

\* a working directory with five catalog-named directories, a build directory,
\* a catalog-named symlink, and inside one target a symlink and a catalog-named directory;
\* dist holds a 0-byte file and a 5000-byte file
DirWorld ==
    (<<>> :> DirNode(1)) @@
    (WorkDir :> DirNode(1)) @@
    (<<W, Coverage>> :> Node("link", OutDir, 1, 2)) @@
    (DistDir :> DirNode(1)) @@
    (Append(DistDir, F) :> FileNode(1, 5000)) @@
    (Append(DistDir, Regular) :> FileNode(1, 0)) @@
    (ProjectDir :> DirNode(1)) @@
    (<<W, Project, DotNext>> :> DirNode(1)) @@
    (<<W, Project, Build>> :> DirNode(1)) @@
    (<<W, Project, Coverage>> :> DirNode(1)) @@
    (<<W, Project, Coverage, F>> :> FileNode(1, 4096)) @@
    (TargetDir :> DirNode(1)) @@
    (Append(TargetDir, F) :> FileNode(1, 4097)) @@
    (Append(TargetDir, Lnk) :> Node("link", OutDir, 1, 2)) @@
    (PkgDir :> DirNode(1)) @@
    (PkgDistDir :> DirNode(1)) @@
    (Append(PkgDistDir, F) :> FileNode(1, 20)) @@
    (<<W, Project, Src>> :> DirNode(1)) @@
    (<<W, Tmp>> :> DirNode(1)) @@
    (OutDir :> DirNode(1)) @@
    (<<Out, F>> :> FileNode(1, 7)) @@
    (<<Out, NodeModules>> :> DirNode(1)) @@
    (<<Out, NodeModules, F>> :> FileNode(1, 7))

\* DirWorld with two directories that cannot be read (EACCES): src, which
\* holds a catalog-named directory, and a package inside the target coverage
UnreadableWorld ==
    [DirWorld EXCEPT ![<<W, Project, Src>>].readable = FALSE] @@
    (<<W, Project, Src, Dist>> :> DirNode(1)) @@
    (<<W, Project, Coverage, Pkg>> :> [DirNode(1) EXCEPT !.readable = FALSE]) @@
    (<<W, Project, Coverage, Pkg, F>> :> FileNode(1, 100))

\* the capacity of both queues: bufferSize := s.numWorkers * 2
bufferSize == NumWorkers * 2

\* the bytes one regular file is counted with
BlockBytes(fileSize) ==
    IF fileSize = 0 THEN blockSize
    ELSE ((fileSize + blockSize - 1) \div blockSize) * blockSize

RECURSIVE SumBlocks(_, _)
SumBlocks(f, locs) ==
    IF locs = {} THEN 0
    ELSE LET pp == CHOOSE q \in locs : TRUE
         IN  BlockBytes(f[pp].size) + SumBlocks(f, locs \ {pp})

\* a variant that adds up the sizes lstat reports, symlinks included
calculateDirSize_Bytes(f, dirPath) ==
    LET r == Resolve(f, WorkDir, dirPath, FALSE)
    IN  IF ~r.ok THEN 0
        ELSE SumSizes(f, {pp \in DOMAIN f : Under(pp, r.phys) /\ f[pp].kind # "dir"})

\* what WalkDir reaches from top: every directory on the way down can be read
Reached(f, top) ==
    {pp \in DOMAIN f :
        /\ Under(pp, top)
        /\ \A k \in Len(top)..(Len(pp) - 1) : f[SubSeq(pp, 1, k)].readable}

\* Scanner.calculateDirSize: WalkDir does not follow symlinks; the function
\* passes over symlinks and over what cannot be read, and counts regular files
\* by blocks
calculateDirSize(f, dirPath) ==
    LET r == Resolve(f, WorkDir, dirPath, FALSE)
    IN  IF ~r.ok THEN 0
        ELSE SumBlocks(f, {pp \in Reached(f, r.phys) : f[pp].kind = "file"})

\* a variant that looks through symlinks (os.Stat) when it tests for a directory
walkDirFn_Stat(f, path) ==
    LET r == Resolve(f, WorkDir, path, TRUE)
        target == r.ok /\ f[r.phys].kind = "dir" /\ isCleanupTarget(Base(path))
    IN  [send |-> target, skip |-> target]

\* the function walkDirectory gives to WalkDir: a symlink is passed over, a
\* catalog-named directory is offered to the work queue and not entered
walkDirFn(f, path) ==
    LET d == Lstat(f, WorkDir, path)
        target == d.kind = "dir" /\ isCleanupTarget(Base(path))
    IN  [send |-> target, skip |-> target]

\* a variant whose walk ends at the first directory that cannot be read
WalkDirStep_AbortOnError ==
    /\ scanPc = "scanning"
    /\ walkTodo # <<>>
    /\ LET path == Head(walkTodo)
           fn == walkDirFn(fs, path)
           rd == osReaddir(fs, path)
           names == SortNames({e.name : e \in rd.entries})
           below == IF Lstat(fs, WorkDir, path).kind = "dir" /\ ~fn.skip
                    THEN [k \in 1..Len(names) |-> Join(path, names[k])]
                    ELSE <<>>
           full == Len(workQueue) >= bufferSize
       IN  /\ walkTodo' = IF Lstat(fs, WorkDir, path).kind = "dir" /\ ~rd.ok THEN <<>>
                        ELSE below \o Tail(walkTodo)
           /\ workQueue' = IF fn.send /\ ~full THEN Append(workQueue, workItem(path))
                           ELSE workQueue
           /\ dropped' = IF fn.send /\ full THEN dropped \cup {path} ELSE dropped
           /\ visited' = visited \cup {path}
    /\ UNCHANGED <<fs, removed, extActs, cleaner, calls, locked, valVars, engVars, uiVars,
                   sizer,
                   targetsMutex, collector, getter, got, built,
                   scanDir, scanPc, workClosed, workers, resultQueue, resultClosed,
                   scanTargets>>

\* a variant whose send always succeeds, whatever the queue holds
WalkDirStep_Unbounded ==
    /\ scanPc = "scanning"
    /\ walkTodo # <<>>
    /\ LET path == Head(walkTodo)
           fn == walkDirFn(fs, path)
           rd == osReaddir(fs, path)
           names == SortNames({e.name : e \in rd.entries})
           below == IF Lstat(fs, WorkDir, path).kind = "dir" /\ ~fn.skip
                    THEN [k \in 1..Len(names) |-> Join(path, names[k])]
                    ELSE <<>>
           full == FALSE
       IN  /\ walkTodo' = below \o Tail(walkTodo)
           /\ workQueue' = IF fn.send /\ ~full THEN Append(workQueue, workItem(path))
                           ELSE workQueue
           /\ dropped' = IF fn.send /\ full THEN dropped \cup {path} ELSE dropped
           /\ visited' = visited \cup {path}
    /\ UNCHANGED <<fs, removed, extActs, cleaner, calls, locked, valVars, engVars, uiVars,
                   sizer,
                   targetsMutex, collector, getter, got, built,
                   scanDir, scanPc, workClosed, workers, resultQueue, resultClosed,
                   scanTargets>>

\* one call of the function by filepath.WalkDir, with the non-blocking send
WalkDirStep ==
    /\ scanPc = "scanning"
    /\ walkTodo # <<>>
    /\ LET path == Head(walkTodo)
           fn == walkDirFn(fs, path)
           rd == osReaddir(fs, path)
           names == SortNames({e.name : e \in rd.entries})
           below == IF Lstat(fs, WorkDir, path).kind = "dir" /\ ~fn.skip
                    THEN [k \in 1..Len(names) |-> Join(path, names[k])]
                    ELSE <<>>
           full == Len(workQueue) >= bufferSize
       IN  /\ walkTodo' = below \o Tail(walkTodo)
           /\ workQueue' = IF fn.send /\ ~full THEN Append(workQueue, workItem(path))
                           ELSE workQueue
           /\ dropped' = IF fn.send /\ full THEN dropped \cup {path} ELSE dropped
           /\ visited' = visited \cup {path}
    /\ UNCHANGED <<fs, removed, extActs, cleaner, calls, locked, valVars, engVars, uiVars,
                   sizer,
                   targetsMutex, collector, getter, got, built,
                   scanDir, scanPc, workClosed, workers, resultQueue, resultClosed,
                   scanTargets>>

\* worker: the body of the loop; an item with a catalog name is sized and its
\* result sent (the send blocks while resultQueue is full), any other is left
WorkerDirSend ==
    /\ scanPc = "scanning"
    /\ \E w \in DOMAIN workers :
        /\ workers[w].pc = "send"
        /\ LET item == workers[w].item
           IN  IF isCleanupTarget(item.name)
               THEN /\ Len(resultQueue) < bufferSize
                    /\ resultQueue' = Append(resultQueue,
                                             CleanupTarget(item.path, calculateDirSize(fs, item.path)))
               ELSE resultQueue' = resultQueue
        /\ workers' = [workers EXCEPT ![w] = [pc |-> "recv", item |-> workItem(<<>>)]]
    /\ UNCHANGED <<fs, removed, extActs, cleaner, calls, locked, valVars, engVars, uiVars,
                   sizer,
                   targetsMutex, collector, getter, got, built,
                   scanDir, scanPc, walkTodo, workQueue, workClosed, resultClosed,
                   scanTargets, visited, dropped>>

-----------------------------------------------------------------------------
(* internal/scanner: the targets lock, the collecting loop step by step, GetTargets *)

\* no slice was returned yet
NoSlice == [array |-> "none", elems |-> <<>>]

MutexFree == [writer |-> FALSE, readers |-> 0]
CollectorIdle == [pc |-> "recv", result |-> EmptyTarget]

\* parallelScan: the receive of the collecting loop; a result with a path goes on
\* to the append
CollectRecv ==
    /\ scanPc = "scanning"
    /\ collector.pc = "recv"
    /\ resultQueue # <<>>
    /\ resultQueue' = Tail(resultQueue)
    /\ collector' = IF Head(resultQueue).Path # <<>>
                    THEN [pc |-> "lock", result |-> Head(resultQueue)]
                    ELSE collector
    /\ UNCHANGED <<fs, removed, extActs, cleaner, calls, locked, valVars, engVars, uiVars,
                   sizer, built,
                   targetsMutex, getter, got,
                   scanDir, scanPc, walkTodo, workQueue, workClosed, workers, resultClosed,
                   scanTargets, visited, dropped>>

\* a writer that takes the lock without waiting for it
CollectLock_NoWait ==
    /\ collector.pc = "lock"
    /\ targetsMutex' = [targetsMutex EXCEPT !.writer = TRUE]
    /\ collector' = [collector EXCEPT !.pc = "append"]
    /\ UNCHANGED <<fs, removed, extActs, cleaner, calls, locked, valVars, engVars, uiVars,
                   sizer, built,
                   getter, got,
                   scanDir, scanPc, walkTodo, workQueue, workClosed, workers, resultQueue,
                   resultClosed, scanTargets, visited, dropped>>

\* s.targetsMutex.Lock(): waits until no writer and no reader holds the lock
CollectLock ==
    /\ collector.pc = "lock"
    /\ ~targetsMutex.writer /\ targetsMutex.readers = 0
    /\ targetsMutex' = [targetsMutex EXCEPT !.writer = TRUE]
    /\ collector' = [collector EXCEPT !.pc = "append"]
    /\ UNCHANGED <<fs, removed, extActs, cleaner, calls, locked, valVars, engVars, uiVars,
                   sizer, built,
                   getter, got,
                   scanDir, scanPc, walkTodo, workQueue, workClosed, workers, resultQueue,
                   resultClosed, scanTargets, visited, dropped>>

\* s.targets = append(s.targets, *result.target)
CollectAppend ==
    /\ collector.pc = "append"
    /\ scanTargets' = Append(scanTargets, collector.result)
    /\ collector' = [collector EXCEPT !.pc = "unlock"]
    /\ UNCHANGED <<fs, removed, extActs, cleaner, calls, locked, valVars, engVars, uiVars,
                   sizer, built,
                   targetsMutex, getter, got,
                   scanDir, scanPc, walkTodo, workQueue, workClosed, workers, resultQueue,
                   resultClosed, visited, dropped>>

\* s.targetsMutex.Unlock()
CollectUnlock ==
    /\ collector.pc = "unlock"
    /\ targetsMutex' = [targetsMutex EXCEPT !.writer = FALSE]
    /\ collector' = CollectorIdle
    /\ UNCHANGED <<fs, removed, extActs, cleaner, calls, locked, valVars, engVars, uiVars,
                   sizer, built,
                   getter, got,
                   scanDir, scanPc, walkTodo, workQueue, workClosed, workers, resultQueue,
                   resultClosed, scanTargets, visited, dropped>>

\* the collecting loop ends on the closed and drained resultQueue: Scan returns
CollectDone ==
    /\ scanPc = "scanning"
    /\ collector.pc = "recv"
    /\ resultQueue = <<>>
    /\ resultClosed
    /\ scanPc' = "returned"
    /\ UNCHANGED <<fs, removed, extActs, cleaner, calls, locked, valVars, engVars, uiVars,
                   sizer, built,
                   targetsMutex, collector, getter, got,
                   scanDir, walkTodo, workQueue, workClosed, workers, resultQueue,
                   resultClosed, scanTargets, visited, dropped>>

\* GetTargets: s.targetsMutex.RLock(), waits while a writer holds the lock
GetRLock ==
    /\ scanPc = "scanning"
    /\ getter = "idle"
    /\ ~targetsMutex.writer
    /\ targetsMutex' = [targetsMutex EXCEPT !.readers = @ + 1]
    /\ getter' = "copy"
    /\ UNCHANGED <<fs, removed, extActs, cleaner, calls, locked, valVars, engVars, uiVars,
                   sizer, built,
                   collector, got,
                   scanDir, scanPc, walkTodo, workQueue, workClosed, workers, resultQueue,
                   resultClosed, scanTargets, visited, dropped>>

\* a variant that returns s.targets itself: the caller's slice and the scanner's
\* list are one array
GetCopy_Share ==
    /\ getter = "copy"
    /\ getter' = "unlock"
    /\ got' = [array |-> "targets", elems |-> scanTargets]
    /\ UNCHANGED <<fs, removed, extActs, cleaner, calls, locked, valVars, engVars, uiVars,
                   sizer, built,
                   targetsMutex, collector,
                   scanDir, scanPc, walkTodo, workQueue, workClosed, workers, resultQueue,
                   resultClosed, scanTargets, visited, dropped>>

\* GetTargets: make and copy, the elements of s.targets go into a fresh array
GetCopy ==
    /\ getter = "copy"
    /\ getter' = "unlock"
    /\ got' = [array |-> "fresh", elems |-> scanTargets]
    /\ UNCHANGED <<fs, removed, extActs, cleaner, calls, locked, valVars, engVars, uiVars,
                   sizer, built,
                   targetsMutex, collector,
                   scanDir, scanPc, walkTodo, workQueue, workClosed, workers, resultQueue,
                   resultClosed, scanTargets, visited, dropped>>

\* GetTargets: the deferred s.targetsMutex.RUnlock()
GetRUnlock ==
    /\ getter = "unlock"
    /\ targetsMutex' = [targetsMutex EXCEPT !.readers = @ - 1]
    /\ getter' = "idle"
    /\ UNCHANGED <<fs, removed, extActs, cleaner, calls, locked, valVars, engVars, uiVars,
                   sizer, built,
                   collector, got,
                   scanDir, scanPc, walkTodo, workQueue, workClosed, workers, resultQueue,
                   resultClosed, scanTargets, visited, dropped>>

\* the caller of GetTargets sets Selected on an element of the slice it holds;
\* the write goes to the array that slice points to
CallerSelect ==
    /\ scanPc = "scanning"
    /\ getter = "idle" /\ got # NoSlice
    /\ \E i \in DOMAIN got.elems :
        /\ ~got.elems[i].Selected
        /\ got' = [got EXCEPT !.elems[i].Selected = TRUE]
        /\ scanTargets' = IF got.array = "targets"
                          THEN [scanTargets EXCEPT ![i].Selected = TRUE]
                          ELSE scanTargets
    /\ UNCHANGED <<fs, removed, extActs, cleaner, calls, locked, valVars, engVars, uiVars,
                   sizer, built,
                   targetsMutex, collector, getter,
                   scanDir, scanPc, walkTodo, workQueue, workClosed, workers, resultQueue,
                   resultClosed, visited, dropped>>

-----------------------------------------------------------------------------
(* internal/scanner: calculateDirSizeConcurrent, one goroutine a file *)

\* a directory like the one of the size test: two files, and a third in a
\* directory inside
SizeWorld ==
    DirWorld @@
    (<<W, Tmp, F>> :> FileNode(1, 11)) @@
    (<<W, Tmp, Regular>> :> FileNode(1, 4)) @@
    (<<W, Tmp, Pkg>> :> DirNode(1)) @@
    (<<W, Tmp, Pkg, F>> :> FileNode(1, 3))

\* no call is running
SizerIdle == [pc |-> "idle", dirPath |-> <<>>, todo |-> <<>>, size |-> 0, mu |-> 0,
              sem |-> 0, wg |-> 0, gos |-> <<>>, result |-> 0]

\* the call has declared size, mu, wg and the semaphore and starts filepath.Walk
SizerStart(dirPath) ==
    [SizerIdle EXCEPT !.pc = "walk", !.dirPath = dirPath, !.todo = <<dirPath>>]

\* one call of the walk function by filepath.Walk: an error is passed over, a
\* directory is entered, for anything else wg.Add(1) and a goroutine with the
\* entry's size
SizeWalkStep ==
    /\ sizer.pc = "walk" /\ sizer.todo # <<>>
    /\ LET path == Head(sizer.todo)
           r == Resolve(fs, WorkDir, path, FALSE)
           rd == osReaddir(fs, path)
           names == SortNames({e.name : e \in rd.entries})
           isDir == r.ok /\ fs[r.phys].kind = "dir"
           below == IF isDir /\ rd.ok
                    THEN [k \in 1..Len(names) |-> Join(path, names[k])]
                    ELSE <<>>
           spawn == r.ok /\ ~isDir
       IN  sizer' = [sizer EXCEPT
                        !.todo = below \o Tail(sizer.todo),
                        !.wg = IF spawn THEN @ + 1 ELSE @,
                        !.gos = IF spawn
                                THEN Append(@, [pc |-> "sem", fileSize |-> fs[r.phys].size, tmp |-> 0])
                                ELSE @]
    /\ UNCHANGED <<fs, removed, extActs, cleaner, calls, locked, valVars, engVars, uiVars,
                   targetsMutex, collector, getter, got, built,
                   scanDir, scanPc, walkTodo, workQueue, workClosed, workers, resultQueue,
                   resultClosed, scanTargets, visited, dropped>>

\* what a step of a goroutine leaves alone
SizerFrame ==
    UNCHANGED <<fs, removed, extActs, cleaner, calls, locked, valVars, engVars, uiVars,
                targetsMutex, collector, getter, got, built,
                scanDir, scanPc, walkTodo, workQueue, workClosed, workers, resultQueue,
                resultClosed, scanTargets, visited, dropped>>

\* semaphore <- struct{}{}: blocks while numWorkers goroutines hold a slot
GoAcquire ==
    /\ \E g \in DOMAIN sizer.gos :
        /\ sizer.gos[g].pc = "sem"
        /\ sizer.sem < NumWorkers
        /\ sizer' = [sizer EXCEPT !.sem = @ + 1, !.gos[g].pc = "lock"]
    /\ SizerFrame

\* a goroutine that adds to the total without taking the mutex
GoLock_NoMutex ==
    /\ \E g \in DOMAIN sizer.gos :
        /\ sizer.gos[g].pc = "lock"
        /\ sizer' = [sizer EXCEPT !.gos[g].pc = "read"]
    /\ SizerFrame

\* mu.Lock()
GoLock ==
    /\ \E g \in DOMAIN sizer.gos :
        /\ sizer.gos[g].pc = "lock"
        /\ sizer.mu = 0
        /\ sizer' = [sizer EXCEPT !.mu = g, !.gos[g].pc = "read"]
    /\ SizerFrame

\* size += fileSize, the load of size
GoRead ==
    /\ \E g \in DOMAIN sizer.gos :
        /\ sizer.gos[g].pc = "read"
        /\ sizer' = [sizer EXCEPT !.gos[g].tmp = sizer.size, !.gos[g].pc = "write"]
    /\ SizerFrame

\* size += fileSize, the store of the sum
GoWrite ==
    /\ \E g \in DOMAIN sizer.gos :
        /\ sizer.gos[g].pc = "write"
        /\ sizer' = [sizer EXCEPT !.size = sizer.gos[g].tmp + sizer.gos[g].fileSize,
                                  !.gos[g].pc = "unlock"]
    /\ SizerFrame

\* mu.Unlock()
GoUnlock ==
    /\ \E g \in DOMAIN sizer.gos :
        /\ sizer.gos[g].pc = "unlock"
        /\ sizer' = [sizer EXCEPT !.mu = 0, !.gos[g].pc = "release"]
    /\ SizerFrame

\* the deferred <-semaphore
GoRelease ==
    /\ \E g \in DOMAIN sizer.gos :
        /\ sizer.gos[g].pc = "release"
        /\ sizer' = [sizer EXCEPT !.sem = @ - 1, !.gos[g].pc = "wgdone"]
    /\ SizerFrame

\* the deferred wg.Done()
GoDone ==
    /\ \E g \in DOMAIN sizer.gos :
        /\ sizer.gos[g].pc = "wgdone"
        /\ sizer' = [sizer EXCEPT !.wg = @ - 1, !.gos[g].pc = "done"]
    /\ SizerFrame

\* wg.Wait() after the walk, and return size
SizeReturn ==
    /\ sizer.pc = "walk" /\ sizer.todo = <<>>
    /\ sizer.wg = 0
    /\ sizer' = [sizer EXCEPT !.pc = "returned", !.result = sizer.size]
    /\ SizerFrame

-----------------------------------------------------------------------------
(* internal/scanner: New, the number of workers *)

\* no call of New yet
NotBuilt == [pc |-> "idle", cpu |-> 0, wdOk |-> TRUE, numWorkers |-> 0]

\* New is called on a machine of cpu processors; os.Getwd() succeeds or fails
ScannerNewStart(cpu, wdOk) == [pc |-> "getwd", cpu |-> cpu, wdOk |-> wdOk, numWorkers |-> 0]

ScannerNewFrame ==
    UNCHANGED <<fs, removed, extActs, cleaner, calls, locked, valVars, engVars, uiVars,
                targetsMutex, collector, getter, got, sizer,
                scanDir, scanPc, walkTodo, workQueue, workClosed, workers, resultQueue,
                resultClosed, scanTargets, visited, dropped>>

\* wd, err := os.Getwd(); an error ends New with no scanner
ScannerNewGetwd ==
    /\ built.pc = "getwd"
    /\ built' = [built EXCEPT !.pc = IF built.wdOk THEN "numcpu" ELSE "failed"]
    /\ ScannerNewFrame

\* numWorkers := runtime.NumCPU()
ScannerNewNumCPU ==
    /\ built.pc = "numcpu"
    /\ built' = [built EXCEPT !.pc = "max", !.numWorkers = built.cpu]
    /\ ScannerNewFrame

\* if numWorkers > 8 { numWorkers = 8 }
ScannerNewClampMax ==
    /\ built.pc = "max"
    /\ built' = [built EXCEPT !.pc = "min", !.numWorkers = IF @ > 8 THEN 8 ELSE @]
    /\ ScannerNewFrame

\* if numWorkers < 2 { numWorkers = 2 }
ScannerNewClampMin ==
    /\ built.pc = "min"
    /\ built' = [built EXCEPT !.pc = "make", !.numWorkers = IF @ < 2 THEN 2 ELSE @]
    /\ ScannerNewFrame

\* return &Scanner{workingDir: wd, numWorkers: numWorkers, ...}, nil
ScannerNewReturn ==
    /\ built.pc = "make"
    /\ built' = [built EXCEPT !.pc = "built"]
    /\ ScannerNewFrame

-----------------------------------------------------------------------------
(* Validator runs *)

TestTargets ==
    <<CleanupTarget(CandValid, 1024), CleanupTarget(CandSymlinkDir, 512),
      CleanupTarget(CandRegular, 100), CleanupTarget(CandOutside, 200),
      CleanupTarget(CandNonexistent, 300)>>

\* the paths of the lists tried besides the test's own list
ListCandidates ==
    {CandValid, CandDist, CandSymlinkDir, CandUnderSymlink, CandRegular, CandOutside,
     CandNonexistent}

TargetLists ==
    {TestTargets} \cup
    UNION {[1..n -> {CleanupTarget(p, 1024) : p \in ListCandidates}] : n \in 0..MaxTargets}

NoVerdict == [ok |-> FALSE, reason |-> "not run", security |-> FALSE]
NoResult == [targets |-> <<>>, err |-> NoVerdict]

\* a call of validatePathSecurity, a method of a Cleaner that New returned
VValidatePath ==
    /\ cleaner # NoCleaner
    /\ \E p \in Candidates :
        /\ vPath' = p
        /\ vRes' = validatePathSecurity(cleaner, fs, p)
    /\ UNCHANGED <<fs, removed, extActs, cleaner, calls, locked, engVars, vIn, vOut, newDir, newErr, uiVars,
                   scanVars>>

VValidateTargets ==
    /\ vOut' = ValidateTargets(cleaner, fs, vIn)
    /\ UNCHANGED <<fs, removed, extActs, cleaner, calls, locked, engVars, vIn, vPath, vRes, newDir, newErr,
                   uiVars, scanVars>>

\* the working directory is a symlink to a directory elsewhere
WorkLinkWorld == Without(BaseWorld, WorkDir) @@ (WorkDir :> LinkNode(1, OutDir))

\* the working directory is a regular file
WorkFileWorld == Without(BaseWorld, WorkDir) @@ (WorkDir :> FileNode(1, 1))

\* the working directory's volume has the identifier 0, the mounted one 2
DevZeroWorld ==
    [pp \in DOMAIN BaseWorld |->
        IF BaseWorld[pp].dev = 1 THEN [BaseWorld[pp] EXCEPT !.dev = 0] ELSE BaseWorld[pp]]

NewWorlds == Worlds \cup {WorkLinkWorld, WorkFileWorld, DevZeroWorld}

\* a call of cleaner.New: the Cleaner it returns is nil when it returns an error
VNew ==
    /\ \E dir \in Candidates :
        /\ newDir' = dir
        /\ newErr' = New(fs, dir).err
        /\ cleaner' = New(fs, dir).c
    /\ UNCHANGED <<fs, removed, extActs, calls, locked, engVars, vIn, vOut, vPath, vRes,
                   uiVars, scanVars>>

-----------------------------------------------------------------------------
(* Specifications *)

vars == <<fs, removed, extActs, cleaner, calls, locked, valVars, engVars, uiVars, scanVars>>

InitWorld(worlds) ==
    /\ fs \in worlds
    /\ removed = {}
    /\ extActs = 0
    /\ calls = {}
    /\ cleaner = New(fs, Cwd).c

NoSummary == [deletedCount |-> -1, totalBytesFreed |-> -1]

\* ui.NewWithScanner
UIInit(targets) ==
    /\ state = StateSelectingTargets
    /\ uiTargets = targets
    /\ selectedItems = EmptyMap
    /\ cursor = 0
    /\ deleteProgress = EmptyMap
    /\ deletedCount = 0
    /\ totalFreed = 0
    /\ uiErr = ""
    /\ cmds = {}
    /\ msgs = {}
    /\ quit = FALSE
    /\ summary = NoSummary

UIIdle == UIInit(<<>>)

\* scanner.New in the directory dir
ScanInit(dir) ==
    /\ scanDir = dir
    /\ scanPc = "new"
    /\ walkTodo = <<>>
    /\ workQueue = <<>>
    /\ workClosed = FALSE
    /\ workers = [w \in 1..NumWorkers |-> [pc |-> "recv", item |-> workItem(<<>>)]]
    /\ resultQueue = <<>>
    /\ resultClosed = FALSE
    /\ scanTargets = <<>>
    /\ visited = {}
    /\ dropped = {}
    /\ targetsMutex = MutexFree
    /\ collector = CollectorIdle
    /\ getter = "idle"
    /\ got = NoSlice
    /\ sizer = SizerIdle
    /\ built = NotBuilt

ScanIdle == ScanInit(Cwd)

\* cleaner.New was called for the working directory (InitWorld), nothing else yet
NewDone == newDir = Cwd /\ newErr = New(fs, Cwd).err
ValidatorIdle == vIn = <<>> /\ vOut = NoResult /\ vPath = <<>> /\ vRes = NoVerdict /\ NewDone
EngineIdle == job = IdleJob /\ stack = <<>>

\* the validator and ValidateTargets on every world and candidate
InitV ==
    /\ InitWorld(Worlds)
    /\ locked = {}
    /\ vIn \in TargetLists
    /\ vOut = NoResult /\ vPath = <<>> /\ vRes = NoVerdict /\ NewDone
    /\ EngineIdle
    /\ UIIdle
    /\ ScanIdle

NextV == VValidatePath \/ VValidateTargets

SpecV == InitV /\ [][NextV]_vars

\* cleaner.New on every world and candidate, and validation with the Cleaner it returned
InitNew ==
    /\ fs \in NewWorlds
    /\ removed = {} /\ extActs = 0 /\ calls = {} /\ locked = {}
    /\ cleaner = NoCleaner
    /\ newDir = <<>> /\ newErr = Allow
    /\ vIn = <<>> /\ vOut = NoResult /\ vPath = <<>> /\ vRes = NoVerdict
    /\ EngineIdle
    /\ UIIdle
    /\ ScanIdle

NextNew == VNew \/ VValidatePath

SpecNew == InitNew /\ [][NextNew]_vars

LockChoices == {{}, {Append(PkgDir, F)}, {Append(TargetDir, Lnk)}}

\* one secureDeleteDirectory call on a filesystem nobody else changes
InitEngine ==
    /\ InitWorld(EngineWorlds)
    /\ locked \in LockChoices
    /\ ValidatorIdle
    /\ job \in {StartJob(p) : p \in Candidates}
    /\ stack = <<>>
    /\ UIIdle
    /\ ScanIdle

NextEngine ==
    SDDValidate \/ SDDLstat \/ RAOpen \/ RAEntryValidate \/ RAEntryAct \/ RAFinalRemove

SpecEngine == InitEngine /\ [][NextEngine]_vars

\* one secureDeleteDirectory call racing with the external actor
InitRace ==
    /\ InitWorld({BaseWorld, LinkWorld})
    /\ locked = {}
    /\ ValidatorIdle
    /\ job \in {StartJob(CandValid), StartJob(CandDist)}
    /\ stack = <<>>
    /\ UIIdle
    /\ ScanIdle

NextRace ==
    \/ SDDValidate \/ SDDLstat \/ RAOpen \/ RAEntryValidate \/ RAEntryAct \/ RAFinalRemove
    \/ ExtReplaceDirBySymlink

SpecRace == InitRace /\ [][NextRace]_vars

\* what the scan of BaseWorld reports: the two targets with their sizes
ScannedTargets ==
    <<CleanupTarget(CandValid, calculateDirSizeConcurrent(BaseWorld, CandValid)),
      CleanupTarget(CandDist, calculateDirSizeConcurrent(BaseWorld, CandDist))>>

\* cmd.performCleanupWithScanner up to the start of the interactive program:
\* GetTargets, cleaner.New, ValidateTargets on all scanned targets, ui.NewWithScanner
performCleanupWithScanner ==
    /\ state = StateScanning
    /\ ~quit
    /\ newDir' = Cwd
    /\ newErr' = New(fs, Cwd).err
    /\ LET n == New(fs, Cwd)
           v == ValidateTargets(n.c, fs, ScannedTargets)
       IN  IF ~n.err.ok
           THEN quit' = TRUE /\ UNCHANGED <<cleaner, vIn, vOut, state, uiTargets>>
           ELSE /\ cleaner' = n.c
                /\ vIn' = ScannedTargets
                /\ vOut' = v
                /\ IF Len(v.targets) = 0
                   THEN quit' = TRUE /\ UNCHANGED <<state, uiTargets>>
                   ELSE quit' = FALSE /\ state' = StateSelectingTargets /\ uiTargets' = v.targets
    /\ UNCHANGED <<fs, removed, extActs, calls, locked, vPath, vRes, engVars, scanVars,
                   selectedItems, cursor, deleteProgress, deletedCount, totalFreed, uiErr,
                   cmds, msgs, summary>>

\* the program after the scan, as the user and the external actor drive it
InitUI ==
    /\ InitWorld({BaseWorld})
    /\ locked \in {{}, {Append(DistDir, F)}}
    /\ ValidatorIdle
    /\ EngineIdle
    /\ state = StateScanning
    /\ uiTargets = <<>>
    /\ selectedItems = EmptyMap
    /\ cursor = 0
    /\ deleteProgress = EmptyMap
    /\ deletedCount = 0
    /\ totalFreed = 0
    /\ uiErr = ""
    /\ cmds = {}
    /\ msgs = {}
    /\ quit = FALSE
    /\ summary = NoSummary
    /\ ScanIdle

NextUI ==
    \/ performCleanupWithScanner
    \/ KeyMsg \/ RunDeleteDirectory \/ HandleDeleteFinished \/ HandleErr
    \/ ExitTimerFires \/ HandleExitAfterDelay
    \/ ExtReplaceDirBySymlink \/ ExtRemoveDir

SpecUI == InitUI /\ [][NextUI]_vars

\* the event loop hands a message to Update, the timer fires
DeliveryStep ==
    HandleDeleteFinished \/ HandleErr \/ ExitTimerFires \/ HandleExitAfterDelay

\* the program is started, a deletion command runs in its goroutine
CommandStep == performCleanupWithScanner \/ RunDeleteDirectory

\* the guards of CommandStep: ENABLED <<CommandStep>>_vars, written out
CommandStepEnabled ==
    \/ state = StateScanning /\ ~quit
    \/ \E c \in cmds : c.kind = "deleteDirectory"

\* the program's own steps always come: weak fairness of the deliveries, and of
\* the commands in its expanded form; key presses and the external actor come
\* or do not
FairUI ==
    /\ WF_vars(DeliveryStep)
    /\ ([]<>(~CommandStepEnabled)) \/ ([]<><<CommandStep>>_vars)

SpecUIFair == SpecUI /\ FairUI

\* the scan of a tree nobody changes meanwhile, started in /w or in /tmp
InitScan ==
    /\ InitWorld({ScanWorld})
    /\ locked = {}
    /\ ValidatorIdle
    /\ EngineIdle
    /\ UIIdle
    /\ \E dir \in {Cwd, Str(<<Tmp>>)} : ScanInit(dir)

NextScan ==
    \/ Scan \/ WalkStep \/ WalkerReturn \/ WorkerRecv \/ WorkerSend
    \/ CloseResults \/ Collect \/ ScanReturn

SpecScan == InitScan /\ [][NextScan]_vars

\* the scan by the WalkDir scanner of a tree nobody changes meanwhile
InitWalkDir ==
    /\ InitWorld({DirWorld, UnreadableWorld})
    /\ locked = {}
    /\ ValidatorIdle
    /\ EngineIdle
    /\ UIIdle
    /\ \E dir \in {Cwd, Str(ProjectDir)} : ScanInit(dir)

NextWalkDir ==
    \/ Scan \/ WalkDirStep \/ WalkerReturn \/ WorkerRecv \/ WorkerDirSend
    \/ CloseResults \/ Collect \/ ScanReturn

SpecWalkDir == InitWalkDir /\ [][NextWalkDir]_vars

\* the steps of the goroutines that touch only the channels
ChannelStep == Scan \/ WalkerReturn \/ WorkerRecv \/ CloseResults \/ Collect \/ ScanReturn

\* the steps that read the filesystem
TreeStep == WalkDirStep \/ WorkerDirSend

\* the guards of TreeStep: ENABLED <<TreeStep>>_vars, written out
TreeStepEnabled ==
    /\ scanPc = "scanning"
    /\ \/ walkTodo # <<>>
       \/ \E w \in DOMAIN workers :
             /\ workers[w].pc = "send"
             /\ isCleanupTarget(workers[w].item.name) => Len(resultQueue) < bufferSize

\* the Go scheduler runs every goroutine that can take a step: weak fairness of
\* the channel steps, and of the tree steps in its expanded form
FairWalkDir ==
    /\ WF_vars(ChannelStep)
    /\ ([]<>(~TreeStepEnabled)) \/ ([]<><<TreeStep>>_vars)

SpecWalkDirFair == SpecWalkDir /\ FairWalkDir

\* the scan with the collecting loop taken step by step, and a caller of
\* GetTargets at work meanwhile
InitLock ==
    /\ InitWorld({DirWorld})
    /\ locked = {}
    /\ ValidatorIdle
    /\ EngineIdle
    /\ UIIdle
    /\ ScanInit(Cwd)

NextLock ==
    \/ Scan \/ WalkDirStep \/ WalkerReturn \/ WorkerRecv \/ WorkerDirSend \/ CloseResults
    \/ CollectRecv \/ CollectLock \/ CollectAppend \/ CollectUnlock \/ CollectDone
    \/ GetRLock \/ GetCopy \/ GetRUnlock \/ CallerSelect

SpecLock == InitLock /\ [][NextLock]_vars


\* one call of calculateDirSizeConcurrent on a tree nobody changes meanwhile
InitSize ==
    /\ InitWorld({SizeWorld, UnreadableWorld})
    /\ locked = {}
    /\ ValidatorIdle
    /\ EngineIdle
    /\ UIIdle
    /\ scanDir = Cwd /\ scanPc = "new" /\ walkTodo = <<>> /\ workQueue = <<>>
    /\ workClosed = FALSE
    /\ workers = [w \in 1..NumWorkers |-> [pc |-> "recv", item |-> workItem(<<>>)]]
    /\ resultQueue = <<>> /\ resultClosed = FALSE /\ scanTargets = <<>>
    /\ visited = {} /\ dropped = {}
    /\ targetsMutex = MutexFree /\ collector = CollectorIdle /\ getter = "idle"
    /\ got = NoSlice
    /\ \E dir \in {Str(<<W, Tmp>>), CandValid, Str(<<W, Project, Coverage>>)} :
          sizer = SizerStart(dir)
    /\ built = NotBuilt

GoStep ==
    GoAcquire \/ GoLock \/ GoRead \/ GoWrite \/ GoUnlock \/ GoRelease \/ GoDone

NextSize == SizeWalkStep \/ GoStep \/ SizeReturn

SpecSize == InitSize /\ [][NextSize]_vars

\* the walk function can be called
SizeWalkStepEnabled == sizer.pc = "walk" /\ sizer.todo # <<>>

\* the Go scheduler runs every goroutine that can run; the fairness of the
\* walk's steps is written out with their guard
FairSize ==
    /\ WF_vars(GoStep \/ SizeReturn)
    /\ ([]<>(~SizeWalkStepEnabled)) \/ ([]<><<SizeWalkStep>>_vars)

SpecSizeFair == SpecSize /\ FairSize

\* one call of scanner.New on every machine from one processor to MaxCPU
InitBuild ==
    /\ InitWorld({SizeWorld})
    /\ locked = {}
    /\ ValidatorIdle
    /\ EngineIdle
    /\ UIIdle
    /\ scanDir = Cwd /\ scanPc = "new" /\ walkTodo = <<>> /\ workQueue = <<>>
    /\ workClosed = FALSE
    /\ workers = [w \in 1..NumWorkers |-> [pc |-> "recv", item |-> workItem(<<>>)]]
    /\ resultQueue = <<>> /\ resultClosed = FALSE /\ scanTargets = <<>>
    /\ visited = {} /\ dropped = {}
    /\ targetsMutex = MutexFree /\ collector = CollectorIdle /\ getter = "idle"
    /\ got = NoSlice
    /\ sizer = SizerIdle
    /\ \E cpu \in 1..MaxCPU, wdOk \in BOOLEAN : built = ScannerNewStart(cpu, wdOk)

NextBuild ==
    \/ ScannerNewGetwd
    \/ ScannerNewNumCPU
    \/ ScannerNewClampMax
    \/ ScannerNewClampMin
    \/ ScannerNewReturn

SpecBuild == InitBuild /\ [][NextBuild]_vars

-----------------------------------------------------------------------------
(* Properties *)

LinkLoc == Append(TargetDir, Lnk)

\* the cleaned absolute form of p lies strictly below the working directory
StrictDescendant(p) ==
    LET segs == Split(Abs(Cwd, p))
    IN  Len(segs) > Len(WorkDir) /\ SubSeq(segs, 1, Len(WorkDir)) = WorkDir

\* some directory strictly between the working directory and p is a symlink
HasSymlinkAncestor(f, p) ==
    LET segs == Split(Abs(Cwd, p))
    IN  \E k \in (Len(WorkDir) + 1)..(Len(segs) - 1) :
            Lstat(f, WorkDir, Str(SubSeq(segs, 1, k))).kind = "link"

WellEncoded(p) == \A i \in 1..Len(p) : p[i] \notin {NUL, BAD}

\* C1 (as claimed): whatever the external actor does between two steps of a
\* deletion job, the job removes nothing outside the working directory's subtree.
C1_NothingOutsideRemoved == \A pp \in removed : Under(pp, WorkDir)

\* C3 (as claimed): a path that is not a strict descendant of the working
\* directory is denied with the reason "outside working directory" or
\* "traversal", and no mutating call is issued.
C3_DeniedOutsideOrTraversal ==
    (job.pc = "done" /\ ~StrictDescendant(job.path)) =>
        /\ ~job.err.ok
        /\ job.err.reason \in {ReasonOutside, ReasonTraversal}
        /\ calls = {}

\* the reason the validator gives for a path that is not a strict descendant
C3Reason(p) ==
    IF \E i \in 1..Len(p) : p[i] = BAD THEN ReasonUTF8
    ELSE IF \E i \in 1..Len(p) : p[i] = NUL THEN ReasonNull
    ELSE IF Split(Abs(Cwd, p)) = WorkDir THEN ReasonItself
    ELSE ReasonOutside

\* C3 (amended): such a path is always denied, before any mutating call; the
\* reason is "outside working directory", except that the working directory
\* itself is denied as such and an ill-encoded path with the encoding reason.
C3_DeniedBeforeAnyMutation ==
    (job.pc \notin {"idle", "validate"} /\ ~StrictDescendant(job.path)) =>
        /\ job.pc = "done"
        /\ ~job.err.ok /\ job.err.security
        /\ job.err.reason = C3Reason(job.path)
        /\ calls = {} /\ removed = {} /\ stack = <<>>

C3_Witness ==
    /\ job.pc = "done" /\ job.path = CandTraversal
    /\ job.err.reason = ReasonOutside /\ calls = {}

\* C4: a candidate textually inside the working directory with a symlink among
\* the directories between it and the working directory is denied.
C4_SymlinkAncestorDenied ==
    (vPath # <<>> /\ WellEncoded(vPath) /\ StrictDescendant(vPath)
        /\ HasSymlinkAncestor(fs, vPath)) => ~vRes.ok

C4_Witness ==
    /\ vPath = CandPkg /\ fs = SymAncestorWorld
    /\ ~vRes.ok /\ vRes.reason = ReasonParentSymlink

\* C5: deleting a target that holds a symlink removes the link entry itself and
\* never follows it: everything at the link's destination stays as it was, and
\* the target is gone when the deletion completes.
C5_SymlinkEntryNotFollowed ==
    /\ \A pp \in DOMAIN BaseWorld :
          Under(pp, OutDir) => pp \in DOMAIN fs /\ fs[pp] = BaseWorld[pp]
    /\ (job.pc = "done" /\ job.path = CandValid /\ LinkLoc \in removed \cup DOMAIN fs) =>
          /\ LinkLoc \notin locked => LinkLoc \in removed /\ LinkLoc \notin DOMAIN fs
          /\ locked = {} => job.err.ok /\ (\A pp \in DOMAIN fs : ~Under(pp, TargetDir))

C5_Witness ==
    /\ job.pc = "done" /\ job.path = CandValid /\ job.err.ok
    /\ LinkLoc \in removed /\ TargetDir \notin DOMAIN fs
    /\ <<Out, F>> \in DOMAIN fs

\* a candidate passes the validator, exists, and is a directory and no symlink
Survives(c, f, target) ==
    LET r == Resolve(f, WorkDir, target.Path, FALSE)
    IN  validatePathSecurity(c, f, target.Path).ok /\ r.ok /\ f[r.phys].kind = "dir"

\* C6: ValidateTargets returns, in input order, exactly the candidates that pass
\* the validator, exist, are no symlink and are directories, with no error and
\* no mutation; of the test's five candidates only the valid directory is kept.
C6_ValidateTargetsFilters ==
    vOut # NoResult =>
        /\ vOut.err.ok
        /\ vOut.targets = SelectSeq(vIn, LAMBDA t : Survives(cleaner, fs, t))
        /\ calls = {} /\ removed = {}
        /\ (vIn = TestTargets /\ fs = BaseWorld) => vOut.targets = <<TestTargets[1]>>

C6_Witness ==
    /\ vIn = TestTargets /\ fs = BaseWorld
    /\ vOut.err.ok /\ vOut.targets = <<CleanupTarget(CandValid, 1024)>>

\* the location a scanned target's path names
TargetLoc(i) == Split(TargetAt(i).Path)

\* target i is gone and it was not this program that removed it
VanishedExternally(i) ==
    /\ TargetLoc(i) \notin DOMAIN fs
    /\ TargetLoc(i) \notin removed
    /\ ~HasSymlinkAncestor(fs, TargetAt(i).Path)

\* C2: every filesystem-mutating call the program has made was applied to a
\* path the validator allows in the step of the call
C2_EveryCallAllowedAtCall == \A c \in calls : c.allowed

\* C9: a target that vanished through an external removal is never marked
\* done, hence neither counted as deleted nor added to the freed bytes
C9_VanishedTargetNotCounted ==
    \A i \in DOMAIN deleteProgress : VanishedExternally(i) => ~deleteProgress[i].Done

ConfirmKeys == {"y", "Y", "enter"}

\* C10: nothing is issued or removed before the confirmation screen; delete
\* commands are issued only by y, Y or enter on the confirmation screen; the
\* selection screen is left only by enter with a selected item, toward the
\* confirmation screen, so quitting there deletes nothing
C10_NoDeletionWithoutConfirmation ==
    /\ [](state \in {StateSelectingTargets, StateConfirming} =>
              calls = {} /\ removed = {} /\ cmds = {} /\ msgs = {} /\ deleteProgress = EmptyMap)
    /\ [][(\E c \in cmds' \ cmds : c.kind = "deleteDirectory") =>
              /\ state = StateConfirming
              /\ \E key \in ConfirmKeys : updateConfirming(key)]_vars
    /\ [][(state = StateSelectingTargets /\ state' # state) =>
              /\ state' = StateConfirming
              /\ Len(getSelectedTargets) > 0
              /\ UNCHANGED <<selectedItems, cmds, quit>>]_vars

C10_Witness ==
    /\ state = StateDeleting
    /\ \E c \in calls : c.op = "RemoveAll" /\ c.path = CandValid
    /\ TargetDir \in removed

\* the directories a scan from root is to report
ExpectedTargets(f, root) ==
    {pp \in DOMAIN f :
        /\ Under(pp, root) /\ pp # root
        /\ f[pp].kind = "dir"
        /\ isCleanupTarget(pp[Len(pp)])
        /\ \A k \in (Len(root) + 1)..(Len(pp) - 1) : ~isCleanupTarget(pp[k])}

\* C7: once Scan has returned, and no work item was dropped on the way, the
\* target list holds each expected directory once and nothing else
C7_ScanReportsExactly ==
    (scanPc = "returned" /\ dropped = {}) =>
        /\ {scanTargets[i].Path : i \in DOMAIN scanTargets} =
               {Str(pp) : pp \in ExpectedTargets(fs, Split(scanDir))}
        /\ Len(scanTargets) = Cardinality(ExpectedTargets(fs, Split(scanDir)))

\* no directory from the scan root down to the parent of path has a catalog name
NoCatalogAncestor(path) ==
    \A k \in Len(Split(scanDir))..(Len(Split(path)) - 1) : ~isCleanupTarget(Split(path)[k])

\* C8: the walk function is never called inside a catalog-named directory, and
\* no work item, result or target lies inside one
C8_NeverDescendsIntoTarget ==
    /\ \A path \in visited : NoCatalogAncestor(path)
    /\ \A i \in DOMAIN workQueue : NoCatalogAncestor(workQueue[i].path)
    /\ \A w \in DOMAIN workers : workers[w].pc = "send" => NoCatalogAncestor(workers[w].item.path)
    /\ \A i \in DOMAIN resultQueue : NoCatalogAncestor(resultQueue[i].Path)
    /\ \A i \in DOMAIN scanTargets :
          /\ NoCatalogAncestor(scanTargets[i].Path)
          /\ scanTargets[i].Path # Str(PkgDistDir)

C8_Witness ==
    /\ scanPc = "returned"
    /\ scanDir = Cwd
    /\ fs[PkgDistDir].kind = "dir"
    /\ \E i \in DOMAIN scanTargets : scanTargets[i].Path = CandValid
    /\ CandValid \in visited

\* C11: ValidateTargets is called only once a selection has been made, on the
\* selected targets, and before any deletion
C11_ValidatedAfterSelection ==
    [][vOut' # vOut =>
          /\ Len(getSelectedTargets) > 0
          /\ vIn' = getSelectedTargets
          /\ calls = {}]_vars

\* C12: New returns an error and no Cleaner whenever the working directory (the
\* absolute form of its argument) does not exist, is not a directory or is a symlink, and a Cleaner only for a real
\* directory; so every validation runs with a Cleaner whose working directory is
\* a real directory
C12_NewRejectsBadWorkingDir ==
    /\ [](newDir # <<>> =>
            LET r == Resolve(fs, WorkDir, Abs(Cwd, newDir), FALSE)
                real == r.ok /\ fs[r.phys].kind = "dir"
            IN  /\ ~real => (~newErr.ok /\ cleaner = NoCleaner)
                /\ real => (newErr.ok /\ cleaner.workingDir = Abs(Cwd, newDir)
                              /\ cleaner.workingDirDev = fs[r.phys].dev))
    /\ [][vPath' # vPath =>
            /\ cleaner # NoCleaner
            /\ Lstat(fs, WorkDir, cleaner.workingDir).kind = "dir"]_vars

C12_Witness ==
    /\ newDir = CandSymlinkDir /\ fs = BaseWorld
    /\ fs[<<W, Sl>>].kind = "link"
    /\ ~newErr.ok /\ cleaner = NoCleaner

\* C13: a symlinked working directory handed to New is refused with a
\* SecurityError whose reason is "working directory cannot be a symlink"
C13_SymlinkWorkingDirIsSecurityError ==
    (newDir # <<>> /\ Lstat(fs, WorkDir, Abs(Cwd, newDir)).kind = "link") =>
        /\ ~newErr.ok
        /\ newErr.security
        /\ newErr.reason = ReasonWorkingSymlink

\* the path as given, made absolute without cleaning it
RawAbs(p) == IF IsAbs(p) THEN p ELSE Cwd \o <<Sep>> \o p

\* the path has "." or ".." segments or redundant separators
NonCanonical(p) == RawAbs(p) # Clean(RawAbs(p))

\* C14: a well-encoded candidate that is not in canonical form is denied,
\* wherever it resolves (the claim names the normalization-mismatch reason; the
\* denial alone is stated here)
C14_NonCanonicalRejected ==
    (vPath # <<>> /\ WellEncoded(vPath) /\ NonCanonical(vPath)) => ~vRes.ok

\* every check of the validator evaluated on its own, in the order of the
\* claim: the reasons of those that fail
FailedChecks(c, f, p) ==
    LET absPath == Abs(Cwd, p)
        rel == Rel(c.workingDir, absPath)
        stat == Lstat(f, WorkDir, absPath)
        checks ==
          << [fails |-> \E i \in 1..Len(p) : p[i] = BAD, reason |-> ReasonUTF8],
             [fails |-> \E i \in 1..Len(p) : p[i] = NUL, reason |-> ReasonNull],
             [fails |-> absPath # Clean(absPath), reason |-> ReasonNormalization],
             [fails |-> ~HasPrefix(absPath \o <<Sep>>, c.workingDir \o <<Sep>>),
              reason |-> ReasonOutside],
             [fails |-> absPath = c.workingDir, reason |-> ReasonItself],
             [fails |-> rel.ok /\ (HasPrefix(rel.rel, DotDot)
                                     \/ Contains(rel.rel, <<Sep>> \o DotDot)),
              reason |-> ReasonTraversal],
             [fails |-> c.workingDirDev # 0 /\ stat.ok /\ stat.dev # c.workingDirDev,
              reason |-> ReasonBoundary],
             [fails |-> ~ComponentsLoop(c, f, absPath).ok, reason |-> ReasonParentSymlink] >>
    IN  SelectSeq(checks, LAMBDA k : k.fails)

\* C15: the verdict is ALLOW exactly when no check fails, and otherwise a
\* security error with the reason of the first failing check in the order
\* encoding, canonical form, containment, traversal, device, ancestor symlinks
C15_FirstFailingCheckWins ==
    vPath # <<>> =>
        LET failed == FailedChecks(cleaner, fs, vPath)
        IN  IF failed = <<>> THEN vRes = Allow
            ELSE vRes = SecurityError(failed[1].reason)

C15_Witness ==
    /\ vPath = CandOutsideNull
    /\ Len(FailedChecks(cleaner, fs, vPath)) >= 2
    /\ vRes = SecurityError(ReasonNull)

\* C16: the working directory always exists; a deletion asked for the working
\* directory itself, or for a sibling whose name merely begins with the working
\* directory's name, is denied before anything is touched
C16_WorkingDirNeverDeleted ==
    /\ WorkDir \in DOMAIN fs /\ fs[WorkDir].kind = "dir"
    /\ (job.pc = "done" /\ WellEncoded(job.path) /\ Split(Abs(Cwd, job.path)) = WorkDir) =>
          (job.err = SecurityError(ReasonItself) /\ removed = {} /\ calls = {})
    /\ (job.pc = "done" /\ job.path = CandSibling) =>
          (job.err = SecurityError(ReasonOutside) /\ removed = {} /\ calls = {})

C16_Witness ==
    /\ job.pc = "done" /\ job.path = CandWorkDir
    /\ job.err = SecurityError(ReasonItself)
    /\ WorkDir \in DOMAIN fs

\* the path relative to the working directory has a ".." segment
HasDotDotSegment(p) ==
    LET segs == Split(Rel(Cwd, Abs(Cwd, p)).rel)
    IN  \E i \in 1..Len(segs) : segs[i] = DotDot

\* C17: the traversal reason is given only to a path whose form relative to the
\* working directory has a ".." segment; a name that merely starts with two
\* dots is not denied for traversal
C17_TraversalOnlyForDotDotSegment ==
    (vPath # <<>> /\ ~vRes.ok /\ vRes.reason = ReasonTraversal) => HasDotDotSegment(vPath)

\* C18: a validation never allows a candidate whose own volume identifier
\* (os.Lstat) differs from that of the Cleaner's working directory, whatever
\* the identifiers are
C18_OtherVolumeNeverAllowed ==
    [][(vPath' # vPath \/ vRes' # vRes) =>
          LET cand == Lstat(fs, WorkDir, Abs(Cwd, vPath'))
              wd == Lstat(fs, WorkDir, cleaner.workingDir)
          IN  (cand.ok /\ wd.ok /\ cand.dev # wd.dev) => ~vRes'.ok]_vars

-----------------------------------------------------------------------------
(* Recursive deletion: failed entries *)

\* the job passed secureDeleteDirectory's own checks and secureRemoveAll ran
RemoveAllReturned == job.pc = "done" /\ calls # {}

\* the directory the job was asked to delete
JobLoc == Split(Abs(Cwd, job.path))

\* an entry that cannot go: its removal is refused or the validator denies it
Refused(pp) == pp \in locked \/ ~validatePathSecurity(cleaner, fs, Str(pp)).ok

\* an entry that stays because it, or something beneath it, cannot go
HeldBack(pp) == \E q \in DOMAIN fs : Under(q, pp) /\ Refused(q)

\* C19: when secureRemoveAll has returned, every entry beneath the target that
\* is still there is one that could not go or the ancestor of one (every other
\* entry was processed and removed, whatever failed before it), and an error is
\* returned exactly when the target directory itself is still there, that is
\* when its own final removal failed.
C19_FailedEntryDoesNotStopSiblings ==
    RemoveAllReturned =>
        /\ \A pp \in DOMAIN fs : (Under(pp, JobLoc) /\ pp # JobLoc) => HeldBack(pp)
        /\ job.err.ok <=> JobLoc \notin DOMAIN fs
        /\ ~job.err.ok => job.err = PlainError("remove failed")

\* the removal of the package's file was refused, the package stayed, and the
\* target's own file, a sibling of the package, was removed all the same
C19_Witness ==
    /\ RemoveAllReturned /\ job.path = CandValid /\ locked = {Append(PkgDir, F)}
    /\ Append(PkgDir, F) \in DOMAIN fs
    /\ Append(TargetDir, F) \in removed
    /\ ~job.err.ok

\* the entries beneath the target that failed validation or removal and are
\* still on disk
FailedEntries == {pp \in DOMAIN fs : Under(pp, JobLoc) /\ pp # JobLoc /\ Refused(pp)}

\* C20: when secureRemoveAll has returned, every entry that failed validation or
\* removal and is still on disk is named in what the caller receives.
C20_FailedEntriesReported ==
    RemoveAllReturned => \A pp \in FailedEntries : Str(pp) \in ReportedPaths

-----------------------------------------------------------------------------
(* The deletion screen *)

\* C21: once the deletion has started, the UI eventually leaves the deleting
\* state and produces the final summary, unless the user quits before, also
\* when a job fails.
C21_DeletionReachesSummary ==
    (state = StateDeleting) ~> (quit \/ (state # StateDeleting /\ summary # NoSummary))

-----------------------------------------------------------------------------
(* The WalkDir scanner *)

\* what the scanner holds of a path at any stage: queued, in a worker's hands,
\* in the result queue or in the target list
Handled ==
    {workQueue[i].path : i \in DOMAIN workQueue}
    \cup {workers[w].item.path : w \in {v \in DOMAIN workers : workers[v].pc = "send"}}
    \cup {resultQueue[i].Path : i \in DOMAIN resultQueue}
    \cup {scanTargets[i].Path : i \in DOMAIN scanTargets}

\* the target record reported for path, if any
Reported(path) == {scanTargets[i] : i \in {j \in DOMAIN scanTargets : scanTargets[j].Path = path}}

\* C22: the walk never goes beneath a symlink, no symlink is ever queued, sized
\* or reported, catalog name or not, and the size of node_modules is that of its
\* two regular files: its symlink and what lies behind it add nothing.
C22_SymlinksSkipped ==
    /\ \A path \in visited :
          \A k \in 1..(Len(Split(path)) - 1) : fs[SubSeq(Split(path), 1, k)].kind # "link"
    /\ \A path \in Handled : fs[Split(path)].kind = "dir"
    /\ \A t \in Reported(CandValid) : t.Size = BlockBytes(4097) + BlockBytes(20)

\* the scan of /w has returned: the symlink coverage was met and is no target,
\* node_modules with its symlink is one
C22_Witness ==
    /\ scanPc = "returned" /\ scanDir = Cwd
    /\ fs[<<W, Coverage>>].kind = "link" /\ Str(<<W, Coverage>>) \in visited
    /\ fs[Append(TargetDir, Lnk)].kind = "link"
    /\ Reported(CandValid) # {}

\* the regular files beneath a location
FilesBeneath(f, top) == {pp \in DOMAIN f : Under(pp, top) /\ f[pp].kind = "file"}

\* a multiple of 4096 that is at least n and less than n + 4096
RoundedUp(n, m) == m % 4096 = 0 /\ m >= n /\ m < n + 4096

InUnreadable(f, pp) == \E k \in 1..(Len(pp) - 1) : ~f[SubSeq(pp, 1, k)].readable

\* C24: a directory that cannot be read costs only its own subtree: once Scan
\* has returned, and no work item was dropped at a full queue, the targets are
\* exactly the expected directories outside unreadable subtrees, and a target's
\* size leaves out only the files inside its unreadable directories.
C24_ReadErrorsSwallowed ==
    (scanPc = "returned" /\ dropped = {}) =>
        /\ {scanTargets[i].Path : i \in DOMAIN scanTargets} =
              {Str(pp) : pp \in {q \in ExpectedTargets(fs, Split(scanDir)) : ~InUnreadable(fs, q)}}
        /\ \A i \in DOMAIN scanTargets :
              scanTargets[i].Path = Str(<<W, Project, Coverage>>) => scanTargets[i].Size = 4096

\* the scan met the unreadable src and the unreadable package and returned
\* with the five targets outside them
C24_Witness ==
    /\ scanPc = "returned" /\ dropped = {} /\ scanDir = Cwd
    /\ ~fs[<<W, Project, Src>>].readable
    /\ Str(<<W, Project, Src>>) \in visited
    /\ Len(scanTargets) = 5
    /\ Reported(Str(<<W, Project, Coverage>>)) # {}
    /\ Reported(Str(<<W, Tmp>>)) # {}

\* C25: Scan returns in every run, and in the order of the design: the work
\* queue is closed only after the walk, a worker exits only when the queue is
\* closed and drained, the result queue is closed only after every worker has
\* exited, and Scan returns only when the result queue is closed and drained.
C25_ScanTerminates ==
    /\ <>(scanPc = "returned")
    /\ [](workClosed => walkTodo = <<>>)
    /\ [](\A w \in DOMAIN workers :
              workers[w].pc = "done" => (workClosed /\ workQueue = <<>>))
    /\ [](resultClosed => \A w \in DOMAIN workers : workers[w].pc = "done")
    /\ [](scanPc = "returned" => (resultClosed /\ resultQueue = <<>>))

\* Scan has returned after a walk in which the work queue was full at least
\* once, with every goroutine at its end
C25_Witness ==
    /\ scanPc = "returned" /\ dropped # {}
    /\ workClosed /\ resultClosed
    /\ \A w \in DOMAIN workers : workers[w].pc = "done"

\* the walk function is being called on path, a catalog-named directory
WalkerAtTarget(path) ==
    /\ scanPc = "scanning" /\ walkTodo # <<>> /\ Head(walkTodo) = path
    /\ walkDirFn(fs, path).send

\* C26: the work queue never holds more than 2 x worker count items; a step of
\* the walker on a catalog-named directory at a full queue leaves the queue as
\* it is, drops the item, does not enter the directory and goes on to the next
\* entry; a dropped item is never sized or reported.
C26_WalkerNeverBlocks ==
    /\ [](Len(workQueue) <= 2 * NumWorkers)
    /\ [](\A path \in dropped : path \in visited /\ path \notin Handled)
    /\ [][\A path \in visited' \ visited :
             (WalkerAtTarget(path) /\ Len(workQueue) = 2 * NumWorkers) =>
                 /\ workQueue' = workQueue
                 /\ dropped' = dropped \cup {path}
                 /\ walkTodo' = Tail(walkTodo)]_vars
    /\ [](scanPc = "returned" =>
             \A pp \in ExpectedTargets(fs, Split(scanDir)) :
                 InUnreadable(fs, pp) \/ Str(pp) \in visited)

\* /w/tmp, the fifth target of the walk, met a full queue: it was visited and
\* dropped, and the scan returned without it
C26_Witness ==
    /\ scanPc = "returned" /\ scanDir = Cwd
    /\ dropped = {Str(<<W, Tmp>>)}
    /\ Reported(Str(<<W, Tmp>>)) = {}
    /\ Len(scanTargets) = 4

-----------------------------------------------------------------------------
(* The targets lock *)

\* C27: the target list changes only in the collector's append step, taken
\* while the collector holds the lock as writer and no caller of GetTargets is
\* inside its read; writer and readers never hold the lock together, and a
\* reader inside its read holds the lock.
C27_AppendsUnderLock ==
    /\ [][scanTargets' # scanTargets =>
             /\ collector.pc = "append"
             /\ targetsMutex.writer /\ targetsMutex.readers = 0
             /\ getter = "idle"]_vars
    /\ [](~(targetsMutex.writer /\ targetsMutex.readers > 0))
    /\ [](getter \in {"copy", "unlock"} => targetsMutex.readers > 0)
    /\ [](targetsMutex.writer => collector.pc \in {"append", "unlock"})

\* a caller of GetTargets is inside its read while the collector, with one
\* target appended before, waits for the lock with the next
C27_Witness ==
    /\ getter = "copy" /\ targetsMutex.readers = 1
    /\ collector.pc = "lock"
    /\ Len(scanTargets) >= 1

-----------------------------------------------------------------------------
(* The catalog *)

\* the readable directories beneath the scan root that carry a name of the
\* README's table and lie in no directory that carries one or a catalog name
SupportedDirs ==
    {pp \in DOMAIN fs :
        /\ Under(pp, Split(scanDir)) /\ pp # Split(scanDir)
        /\ fs[pp].kind = "dir" /\ ~InUnreadable(fs, pp)
        /\ pp[Len(pp)] \in SupportedTargets
        /\ \A k \in (Len(Split(scanDir)) + 1)..(Len(pp) - 1) :
              pp[k] \notin SupportedTargets /\ ~isCleanupTarget(pp[k])}

\* C28: once Scan has returned with nothing dropped, every name of the README's
\* table is recognized by isCleanupTarget and every directory that carries one
\* is in the target list.
C28_ReadmeTargetsRecognized ==
    (scanPc = "returned" /\ dropped = {}) =>
        /\ \A name \in SupportedTargets : isCleanupTarget(name)
        /\ \A pp \in SupportedDirs : Reported(Str(pp)) # {}

\* the names the lookups are asked about: the catalog's keys, the README's
\* names, the empty string and names of ordinary directories
ProbedNames ==
    DOMAIN CommonCleanupDirs \cup SupportedTargets
    \cup {<<>>, Src, <<"documents">>, <<"unknown">>}

\* C29: isCleanupTarget is true exactly for the catalog's keys, false for the
\* empty string and for src; getTargetType gives the key's category and
\* "Unknown" for any other name; and through a whole scan every directory that is
\* queued, sized or reported carries a key as its name and is reported with
\* that key's category, while no visited entry without a key as name is.
C29_CatalogLookup ==
    /\ \A name \in {NodeModules, DotNext, Dist, <<".", "nuxt">>, Coverage} : isCleanupTarget(name)
    /\ \A name \in {Src, <<"documents">>, <<>>} : ~isCleanupTarget(name)
    /\ getTargetType(NodeModules) = "Node.js/Bun.js dependencies"
    /\ getTargetType(DotNext) = "Next.js build cache"
    /\ getTargetType(Dist) = "Distribution/build files"
    /\ getTargetType(<<"unknown">>) = "Unknown"
    /\ \A name \in ProbedNames :
          /\ isCleanupTarget(name) <=> name \in DOMAIN CommonCleanupDirs
          /\ getTargetType(name) =
                IF name \in DOMAIN CommonCleanupDirs THEN CommonCleanupDirs[name] ELSE "Unknown"
    /\ \A path \in Handled : Base(path) \in DOMAIN CommonCleanupDirs
    /\ \A i \in DOMAIN scanTargets :
          /\ scanTargets[i].Name = Base(scanTargets[i].Path)
          /\ scanTargets[i].Type = CommonCleanupDirs[scanTargets[i].Name]
    /\ \A path \in visited :
          Base(path) \notin DOMAIN CommonCleanupDirs => path \notin Handled

\* a scan has returned that walked through src and build, reported neither, and
\* reported .next with its category
C29_Witness ==
    /\ scanPc = "returned" /\ dropped = {}
    /\ Str(<<W, Project, Src>>) \in visited /\ Reported(Str(<<W, Project, Src>>)) = {}
    /\ Str(<<W, Project, Build>>) \in visited /\ Reported(Str(<<W, Project, Build>>)) = {}
    /\ \E t \in Reported(Str(<<W, Project, DotNext>>)) : t.Type = "Next.js build cache"


-----------------------------------------------------------------------------
(* The selection screen *)

\* the key is handled on the selection screen in this step
Pressed(key) ==
    /\ state = StateSelectingTargets /\ ~quit
    /\ updateSelecting(key)
    /\ UNCHANGED <<fs, removed, extActs, cleaner, calls, locked, valVars, engVars, scanVars>>

\* the step inverts the selection of the focused item and of no other
ToggledAtCursor ==
    \A i \in Indices :
        MapGet(selectedItems', i) =
            IF i = cursor THEN ~MapGet(selectedItems, i) ELSE MapGet(selectedItems, i)

\* C30: on the selection screen Space or Enter inverts the selection of the
\* focused item and leaves every other item's selection as it is; a leaves
\* every item selected and A leaves none selected.
C30_SelectionKeys ==
    /\ [][\A key \in {" ", "enter"} : Pressed(key) => ToggledAtCursor]_vars
    /\ [][Pressed("a") => \A i \in Indices : MapGet(selectedItems', i)]_vars
    /\ [][Pressed("A") => \A i \in Indices : ~MapGet(selectedItems', i)]_vars

-----------------------------------------------------------------------------
(* Errors before the recursion *)

\* secureDeleteDirectory has returned an error of its own: of the validator or
\* of its look at the target, not one of secureRemoveAll
EarlyError ==
    /\ job.pc = "done" /\ ~job.err.ok
    /\ job.err.reason \notin {"failed to open directory", "remove failed"}

\* nothing was removed and no removing call was made: the world is one of the
\* worlds the call started in
Untouched == removed = {} /\ calls = {} /\ stack = <<>> /\ fs \in EngineWorlds

\* C31: up to its look at the target secureDeleteDirectory changes nothing, and
\* when it returns an error of its own the world is as it was; a target that is
\* a symlink, a regular file or missing is refused with its reason, and the
\* symlink and everything at its destination are still there.
C31_EarlyErrorMutatesNothing ==
    /\ [](job.pc \in {"validate", "lstat"} => Untouched)
    /\ [][job.pc \in {"validate", "lstat"} =>
             fs' = fs /\ removed' = removed /\ calls' = calls]_vars
    /\ [](EarlyError => Untouched)
    /\ [](job.pc = "done" /\ job.path = CandSymlinkDir =>
             /\ job.err = SecurityError(ReasonTargetSymlink) /\ Untouched
             /\ fs[<<W, Sl>>].kind = "link"
             /\ \A pp \in DOMAIN BaseWorld : Under(pp, OutDir) => pp \in DOMAIN fs)
    /\ [](job.pc = "done" /\ job.path = CandRegular =>
             job.err = SecurityError(ReasonNotDirectory) /\ Untouched)
    /\ [](job.pc = "done" /\ job.path = CandNonexistent =>
             job.err = PlainError("directory does not exist") /\ Untouched)
    /\ [](job.pc = "done" /\ job.path = CandOutside =>
             job.err = SecurityError(ReasonOutside) /\ Untouched)

\* the call on the symlinked directory has returned its refusal
C31_Witness ==
    /\ job.pc = "done" /\ job.path = CandSymlinkDir
    /\ job.err = SecurityError(ReasonTargetSymlink)
    /\ fs[<<W, Sl>>].kind = "link" /\ <<Out, NodeModules, F>> \in DOMAIN fs

-----------------------------------------------------------------------------
(* The deletion jobs of the UI *)

\* the jobs started at confirmation that have not run os.RemoveAll yet
PendingJobs == {c.index : c \in {d \in cmds : d.kind = "deleteDirectory"}}

\* the jobs whose result is on its way to Update
UndeliveredJobs == {m.index : m \in {n \in msgs : n.type \in {"deleteFinishedMsg", "errMsg"}}}

\* C32: the completion state is entered only from the deleting state, by the
\* step that marks the last job done; in it every job started at confirmation
\* is done, none is pending and no result is undelivered; a finished job that
\* leaves another one open keeps the UI in the deleting state, whichever job
\* finishes first.
C32_CompletionOnlyAfterAllJobs ==
    /\ [](state = StateCompletionDelay =>
             /\ \A i \in DOMAIN deleteProgress : deleteProgress[i].Done
             /\ DOMAIN deleteProgress # {}
             /\ PendingJobs = {} /\ UndeliveredJobs = {})
    /\ [][(state # StateCompletionDelay /\ state' = StateCompletionDelay) =>
             /\ state = StateDeleting
             /\ \E i \in DOMAIN deleteProgress : ~deleteProgress[i].Done
             /\ \A i \in DOMAIN deleteProgress' : deleteProgress'[i].Done]_vars
    /\ [][(state = StateDeleting /\ \E i \in DOMAIN deleteProgress' : ~deleteProgress'[i].Done) =>
             state' = StateDeleting]_vars

\* two jobs were started and the completion state was entered after both
C32_Witness ==
    /\ state = StateCompletionDelay
    /\ DOMAIN deleteProgress = {0, 1}
    /\ deletedCount = 2

\* the indices of the selected targets
SelectedIndices == {i \in Indices : MapGet(selectedItems, i)}

\* the paths os.RemoveAll was called on
IssuedPaths == {c.path : c \in {d \in calls : d.op = "RemoveAll"}}

\* C33: the confirming step starts one job for each target selected at that
\* moment and none for another: getSelectedTargetsWithIndices names each
\* selected index once, the new commands and progress entries are those
\* indices, and no command is added at any other step; from then on every job
\* is pending, undelivered or delivered, never two of these, and os.RemoveAll
\* has been called on exactly the paths of the selected targets whose job is no
\* longer pending; no two listed targets share a path.
C33_OneJobPerSelectedTarget ==
    /\ [][(PendingJobs' # PendingJobs /\ state = StateConfirming) =>
             /\ PendingJobs = {} /\ deleteProgress = EmptyMap
             /\ Len(getSelectedTargetsWithIndices) = Cardinality(SelectedIndices)
             /\ {getSelectedTargetsWithIndices[k] : k \in DOMAIN getSelectedTargetsWithIndices}
                    = SelectedIndices
             /\ PendingJobs' = SelectedIndices
             /\ DOMAIN deleteProgress' = SelectedIndices
             /\ selectedItems' = selectedItems]_vars
    /\ [][(state # StateConfirming) => PendingJobs' \subseteq PendingJobs]_vars
    /\ [](\A i, j \in Indices : TargetAt(i).Path = TargetAt(j).Path => i = j)
    /\ [](state \in {StateDeleting, StateCompletionDelay} =>
             /\ DOMAIN deleteProgress = SelectedIndices
             /\ PendingJobs \subseteq SelectedIndices
             /\ UndeliveredJobs \subseteq SelectedIndices \ PendingJobs
             /\ \A i \in SelectedIndices :
                   deleteProgress[i].Done => i \notin PendingJobs \cup UndeliveredJobs
             /\ IssuedPaths = {TargetAt(i).Path : i \in SelectedIndices \ PendingJobs}
             /\ deletedCount <= Cardinality(SelectedIndices))

\* of two listed targets only the second was selected and confirmed; its job
\* has run and nothing was issued on the first
C33_Witness ==
    /\ state = StateDeleting
    /\ Len(uiTargets) = 2 /\ SelectedIndices = {1}
    /\ PendingJobs = {}
    /\ IssuedPaths = {TargetAt(1).Path}

-----------------------------------------------------------------------------
(* The confirmation screen *)

CancelKeys == {"n", "N", "q", "ctrl+c", "esc"}

\* the key is handled on the confirmation screen in this step
PressedConfirming(key) ==
    /\ state = StateConfirming /\ ~quit
    /\ updateConfirming(key)
    /\ UNCHANGED <<fs, removed, extActs, cleaner, calls, locked, valVars, engVars, scanVars>>

\* the step goes back to the selection screen and changes nothing else
BackToSelection ==
    /\ state' = StateSelectingTargets /\ ~quit'
    /\ UNCHANGED <<selectedItems, uiTargets, cursor, cmds, msgs, deleteProgress,
                   deletedCount, totalFreed, fs, removed, calls>>

\* C34: each of n, N, q, ctrl+c and esc on the confirmation screen leads back to
\* the selection screen with the selection as it was, starts no job and changes
\* nothing on the filesystem; and whatever step leaves the confirmation screen
\* for the selection screen does so.
C34_CancelChangesNothing ==
    /\ [][\A key \in CancelKeys : PressedConfirming(key) => BackToSelection]_vars
    /\ [][(state = StateConfirming /\ state' = StateSelectingTargets) =>
             /\ BackToSelection
             /\ cmds = {} /\ calls = {} /\ removed = {} /\ deleteProgress = EmptyMap]_vars
    /\ [](state = StateConfirming => SelectedIndices # {} /\ cmds = {} /\ calls = {})

\* the confirmation screen shows two selected targets and q is about to be
\* handled as a cancel
C34_Witness ==
    /\ state = StateConfirming /\ ~quit
    /\ SelectedIndices = {0, 1}
    /\ ENABLED (PressedConfirming("q") /\ BackToSelection)

-----------------------------------------------------------------------------
(* The counters of the summary *)

\* the jobs marked done
DoneJobs == {i \in DOMAIN deleteProgress : deleteProgress[i].Done}

\* the sizes the scan gave to the targets of a set of jobs, summed
RECURSIVE ScanSizes(_)
ScanSizes(jobs) ==
    IF jobs = {} THEN 0
    ELSE LET i == CHOOSE j \in jobs : TRUE
         IN  TargetAt(i).Size + ScanSizes(jobs \ {i})

\* C35: in every state deletedCount is the number of jobs marked done and
\* totalFreed the sum of the sizes the scan gave to their targets; a job whose
\* os.RemoveAll failed is not marked done and adds to neither; the summary
\* prints these two numbers.
C35_CountersMatchDoneJobs ==
    /\ deletedCount = Cardinality(DoneJobs)
    /\ totalFreed = ScanSizes(DoneJobs)
    /\ \A i \in Indices : \E k \in DOMAIN ScannedTargets : TargetAt(i) = ScannedTargets[k]
    /\ \A i \in DOMAIN deleteProgress :
          /\ deleteProgress[i].Target = TargetAt(i)
          /\ (\E m \in msgs : m.type = "errMsg" /\ m.index = i) => ~deleteProgress[i].Done
    /\ summary # NoSummary =>
          summary = [deletedCount |-> Cardinality(DoneJobs), totalBytesFreed |-> ScanSizes(DoneJobs)]

\* of two jobs one is done and counted with its size, the other failed and its
\* error was handled
C35_Witness ==
    /\ state = StateDeleting /\ uiErr # ""
    /\ DOMAIN deleteProgress = {0, 1} /\ DoneJobs = {0}
    /\ PendingJobs = {} /\ UndeliveredJobs = {}
    /\ deletedCount = 1 /\ totalFreed = TargetAt(0).Size /\ totalFreed > 0
    /\ TargetAt(1).Size > 0

-----------------------------------------------------------------------------
(* Recursive deletion: success means gone *)

\* the innermost secureRemoveAll returns in this step, and returns nil
ReturnsNil ==
    /\ job.pc = "removing" /\ stack # <<>>
    /\ Len(stack') = Len(stack) - 1
    /\ Len(stack) = 1 => job'.err.ok
    /\ Len(stack) > 1 => removed' # removed

\* C36: when a call of secureRemoveAll, the outermost or one for a directory
\* inside, returns nil, its directory and everything that was beneath it are
\* gone; whatever is removed leaves nothing beneath it behind; and when
\* secureDeleteDirectory has returned nil nothing is left at or beneath the
\* target, so a target with an entry that was skipped or could not be removed
\* is never reported as deleted.
C36_SuccessMeansGone ==
    /\ [][ReturnsNil =>
             \A pp \in DOMAIN fs' : ~Under(pp, Split(Abs(Cwd, Top.path)))]_vars
    /\ [][\A d \in removed' \ removed : \A pp \in DOMAIN fs' : ~Under(pp, d)]_vars
    /\ []((job.pc = "done" /\ job.err.ok) =>
             /\ \A pp \in DOMAIN fs : ~Under(pp, JobLoc)
             /\ JobLoc \in removed)
    /\ []((job.pc = "done" /\ \E pp \in DOMAIN fs : Under(pp, JobLoc) /\ pp # JobLoc) =>
             ~job.err.ok)

\* the target with its package directory and the package's file is gone and
\* the call returned nil
C36_Witness ==
    /\ job.pc = "done" /\ job.err.ok /\ job.path = CandValid
    /\ {TargetDir, PkgDir, Append(PkgDir, F)} \subseteq removed
    /\ \A pp \in DOMAIN fs : ~Under(pp, TargetDir)

-----------------------------------------------------------------------------
(* The returned target list *)

\* C37: whatever the caller of GetTargets sets on the slice it got, the
\* scanner's list only grows at its end and no element of it ever changes: each
\* is, from its append on, the record the worker made for its directory,
\* unselected; the caller's slice differs from the list's beginning in nothing
\* but what the caller selected; and ValidateTargets, given that slice after
\* the scan, hands on the records it keeps as they are.
C37_TargetsNeverModified ==
    /\ [][/\ Len(scanTargets') >= Len(scanTargets)
          /\ \A i \in DOMAIN scanTargets : scanTargets'[i] = scanTargets[i]]_vars
    /\ [](\A i \in DOMAIN scanTargets :
             scanTargets[i] =
                 CleanupTarget(scanTargets[i].Path, calculateDirSize(fs, scanTargets[i].Path)))
    /\ [](got # NoSlice =>
             /\ Len(got.elems) <= Len(scanTargets)
             /\ \A i \in DOMAIN got.elems :
                   [got.elems[i] EXCEPT !.Selected = FALSE] = scanTargets[i])
    /\ [](scanPc = "returned" =>
             LET kept == ValidateTargets(cleaner, fs, got.elems).targets
             IN  \A k \in DOMAIN kept : \E i \in DOMAIN got.elems : kept[k] = got.elems[i])

\* the caller selected the first element of the slice it got, the scanner's
\* first target is unselected as before, and the scanner has appended since
C37_Witness ==
    /\ got.array = "fresh" /\ Len(got.elems) >= 1
    /\ got.elems[1].Selected
    /\ ~scanTargets[1].Selected
    /\ Len(scanTargets) > Len(got.elems)

-----------------------------------------------------------------------------
(* The concurrent size computation *)

\* the entries beneath the directory being sized that are not directories
NonDirBeneath == {pp \in DOMAIN fs : Under(pp, Split(sizer.dirPath)) /\ fs[pp].kind # "dir"}

\* the goroutines between mu.Lock() and mu.Unlock()
InCritical == {g \in DOMAIN sizer.gos : sizer.gos[g].pc \in {"read", "write", "unlock"}}

\* the goroutines that hold a slot of the semaphore
HoldingSlot ==
    {g \in DOMAIN sizer.gos : sizer.gos[g].pc \in {"lock", "read", "write", "unlock", "release"}}

\* C38: every call returns, whatever the order of the goroutines' steps; what
\* it returns is, in a tree that can be read throughout, the sum of the byte
\* sizes of all entries beneath the directory that are not directories (18 for
\* the files of 11, 4 and 3 bytes), and otherwise that sum without what lies in
\* unreadable directories; at most one goroutine is between Lock and Unlock, at
\* most numWorkers hold a slot of the semaphore, and the wait group counts the
\* goroutines that have not finished.
C38_ConcurrentSumExact ==
    /\ <>(sizer.pc = "returned")
    /\ [](sizer.pc = "returned" =>
             /\ (\A pp \in DOMAIN fs : fs[pp].readable) =>
                    sizer.result = SumSizes(fs, NonDirBeneath)
             /\ sizer.result = SumSizes(fs, NonDirBeneath \cap Reached(fs, Split(sizer.dirPath)))
             /\ (fs = SizeWorld /\ sizer.dirPath = Str(<<W, Tmp>>)) => sizer.result = 18
             /\ \A g \in DOMAIN sizer.gos : sizer.gos[g].pc = "done")
    /\ [](Cardinality(InCritical) <= 1)
    /\ [](sizer.sem = Cardinality(HoldingSlot) /\ sizer.sem <= NumWorkers)
    /\ [](sizer.wg = Cardinality({g \in DOMAIN sizer.gos : sizer.gos[g].pc # "done"}))

\* the call on the directory of the size test has returned 18 from three
\* goroutines
C38_Witness ==
    /\ sizer.pc = "returned" /\ fs = SizeWorld /\ sizer.dirPath = Str(<<W, Tmp>>)
    /\ Len(sizer.gos) = 3
    /\ sizer.result = 18

\* three times the processors, held between 4 and 16
ThreeTimesClamped(cpu) ==
    IF 3 * cpu > 16 THEN 16 ELSE IF 3 * cpu < 4 THEN 4 ELSE 3 * cpu

\* C39: the scanner New returns has three times the number of CPUs, clamped to
\* the range 4 to 16, as its worker count: never fewer than 4 workers and
\* never more than 16, whatever the CPU count.
C39_WorkerCountClamped ==
    built.pc = "built" =>
        /\ built.numWorkers = ThreeTimesClamped(built.cpu)
        /\ built.numWorkers >= 4
        /\ built.numWorkers <= 16

=============================================================================
